---- MODULE Spec2Model ----
(***************************************************************************)
(* gitar: the parallel command executor with the caller's fold              *)
(* (src/merge_request.rs, get_repo_project_info), the Response envelope     *)
(* with its rate-limit normaliser and its link header parser (src/io.rs),   *)
(* the page count of a listing, and three remote operations.                *)
(*                                                                          *)
(* The specifications of the module:                                        *)
(*   Spec / FairSpec : a batch of Commands run by the executor and folded   *)
(*                     by get_repo_project_info;                            *)
(*   SpecFold        : the fold of get_repo_project_info on the results of  *)
(*                     a batch of commands of any kind;                     *)
(*   SpecRL          : one Response built with Response::new() and          *)
(*                     with_headers(), then queried with                    *)
(*                     get_ratelimit_headers();                             *)
(*   SpecLink        : parse_link_headers on a link header;                 *)
(*   SpecForms       : parse_link_headers on a link header with malformed   *)
(*                     entries;                                             *)
(*   SpecPages       : num_pages of a Gitlab or Github remote on the        *)
(*                     response of its request;                             *)
(*   SpecAcc         : one Response and the calls of its accessors, as      *)
(*                     time passes;                                         *)
(*   SpecNames       : a Response whose header map holds an ETag under      *)
(*                     several casings, and the calls of header and         *)
(*                     get_etag;                                            *)
(*   SpecProc        : a Response with an injected link header processor    *)
(*                     and the calls of get_page_headers;                   *)
(*   SpecOps         : one call of in_feature_branch, of Gitlab's open or   *)
(*                     of Github's get_project_data;                        *)
(*   SpecOpen        : the merge request workflow, open, step by step.      *)
(* The variables of the part a specification does not use keep their        *)
(* initial value.                                                           *)
(***************************************************************************)
EXTENDS Integers, Sequences, FiniteSets, TLC

VARIABLES
    \* ---- executor and fold ----
    cmds,        \* the submitted batch: Seq of commands
    nstarted,    \* how many commands the executor has started (in order)
    worker,      \* worker[i] \in {"submitted", "running", "done"}
    results,     \* results[i]: the slot of command i
    firstDone,   \* index of the command that completed first (0: none yet)
    lastDone,    \* index of the command that completed last so far (0: none)
    lateDone,    \* a command completed after get_repo_project_info returned
    foldIdx,     \* the slot the fold consumes next
    acc,         \* the fold's accumulators: project, members, repo
    ret,         \* what get_repo_project_info returned
    \* ---- response envelope ----
    now,         \* now_epoch_seconds() when the Response was constructed
    resp,        \* the Response
    rl,          \* what the last get_ratelimit_headers() call returned
    \* ---- link header, page count, accessors, remote operations ----
    link,        \* the entries of the link header under parse
    ph,          \* what parse_link_headers returned for it
    pages,       \* one num_pages call: remote, response, requests, result
    calls,       \* the accessor calls made on the Response so far
    call         \* one call of in_feature_branch, open or get_project_data

execVars == <<cmds, nstarted, worker, results, firstDone, lastDone, lateDone, foldIdx, acc, ret>>
respVars == <<now, resp, rl>>
callVars == <<link, ph, pages, calls, call>>
vars == <<cmds, nstarted, worker, results, firstDone, lastDone, lateDone, foldIdx, acc, ret,
          now, resp, rl, link, ph, pages, calls, call>>

(***************************************************************************)
(* Bounds                                                                   *)
(***************************************************************************)
MaxBatch == 3

\* The longest result collection the fold is run on by itself.
MaxFold == 3

(***************************************************************************)
(* CmdInfo (src/io.rs) and the commands of a batch                          *)
(***************************************************************************)
CmdInfo ==
    {"StatusModified", "RemoteUrl", "Branch", "LastCommitSummary",
     "LastCommitMessage", "Project", "Members", "MergeRequest",
     "MergeRequestsList", "OutgoingCommits", "Ignore", "Exit"}

\* The tags get_repo_project_info has a match arm for.
ConsumedTags ==
    {"Project", "Members", "StatusModified", "Branch", "LastCommitSummary",
     "LastCommitMessage"}

\* The tags the commands of a batch produce here: the consumed ones and
\* Ignore (what git::fetch yields), which falls to the wildcard arm.
BatchTags == ConsumedTags \cup {"Ignore"}

\* A command either succeeds with a tagged value or fails. "flag" is the
\* boolean a StatusModified carries (Repo::default() has it false).
Commands ==
    [tag : BatchTags \ {"StatusModified"}, ok : {TRUE}, flag : {FALSE}]
    \cup [tag : {"StatusModified"}, ok : {TRUE}, flag : {TRUE}]
    \cup [tag : {""}, ok : {FALSE}, flag : {FALSE}]

Batches == UNION {[1..n -> Commands] : n \in 0..MaxBatch}

NoResult == [kind |-> "none", tag |-> "", val |-> 0, flag |-> FALSE]

\* Running the i-th command of batch b: Ok(CmdInfo) or Err(e). The value
\* (and the error) is identified by the command that produced it.
Outcome(b, i) ==
    IF b[i].ok
    THEN [kind |-> "ok", tag |-> b[i].tag, val |-> i, flag |-> b[i].flag]
    ELSE [kind |-> "err", tag |-> "", val |-> i, flag |-> FALSE]

(***************************************************************************)
(* git::Repo, Project::default(), Vec::new()                                *)
(***************************************************************************)
RepoDefault == [status |-> FALSE, branch |-> 0, title |-> 0, last_commit_message |-> 0]

with_status(repo, status) == [repo EXCEPT !.status = status]
with_branch(repo, branch) == [repo EXCEPT !.branch = branch]
with_title(repo, title) == [repo EXCEPT !.title = title]
with_last_commit_message(repo, message) == [repo EXCEPT !.last_commit_message = message]

AccInit == [project |-> 0, members |-> 0, repo |-> RepoDefault]

NotReturned == [kind |-> "pending", err |-> 0, body |-> AccInit]

(***************************************************************************)
(* get_repo_project_info: the match of one result                           *)
(***************************************************************************)
\* A fold whose Branch arm also overwrites the title.
match_ok_branch_sets_title(a, r) ==
    CASE r.tag = "Project" -> [a EXCEPT !.project = r.val]
      [] r.tag = "Members" -> [a EXCEPT !.members = r.val]
      [] r.tag = "StatusModified" -> [a EXCEPT !.repo = with_status(a.repo, r.flag)]
      [] r.tag = "Branch" -> [a EXCEPT !.repo = with_title(with_branch(a.repo, r.val), r.val)]
      [] r.tag = "LastCommitSummary" -> [a EXCEPT !.repo = with_title(a.repo, r.val)]
      [] r.tag = "LastCommitMessage" ->
            [a EXCEPT !.repo = with_last_commit_message(a.repo, r.val)]
      [] OTHER -> a

\* A fold whose title and message arms are swapped.
match_ok_swapped(a, r) ==
    CASE r.tag = "Project" -> [a EXCEPT !.project = r.val]
      [] r.tag = "Members" -> [a EXCEPT !.members = r.val]
      [] r.tag = "StatusModified" -> [a EXCEPT !.repo = with_status(a.repo, r.flag)]
      [] r.tag = "Branch" -> [a EXCEPT !.repo = with_branch(a.repo, r.val)]
      [] r.tag = "LastCommitSummary" ->
            [a EXCEPT !.repo = with_last_commit_message(a.repo, r.val)]
      [] r.tag = "LastCommitMessage" -> [a EXCEPT !.repo = with_title(a.repo, r.val)]
      [] OTHER -> a

\* A fold whose wildcard arm starts the accumulators afresh.
match_ok_wildcard_resets(a, r) ==
    CASE r.tag = "Project" -> [a EXCEPT !.project = r.val]
      [] r.tag = "Members" -> [a EXCEPT !.members = r.val]
      [] r.tag = "StatusModified" -> [a EXCEPT !.repo = with_status(a.repo, r.flag)]
      [] r.tag = "Branch" -> [a EXCEPT !.repo = with_branch(a.repo, r.val)]
      [] r.tag = "LastCommitSummary" -> [a EXCEPT !.repo = with_title(a.repo, r.val)]
      [] r.tag = "LastCommitMessage" ->
            [a EXCEPT !.repo = with_last_commit_message(a.repo, r.val)]
      [] OTHER -> AccInit

\* The Ok arms of the match: the accumulators after consuming Ok(r).
match_ok(a, r) ==
    CASE r.tag = "Project" -> [a EXCEPT !.project = r.val]
      [] r.tag = "Members" -> [a EXCEPT !.members = r.val]
      [] r.tag = "StatusModified" -> [a EXCEPT !.repo = with_status(a.repo, r.flag)]
      [] r.tag = "Branch" -> [a EXCEPT !.repo = with_branch(a.repo, r.val)]
      [] r.tag = "LastCommitSummary" -> [a EXCEPT !.repo = with_title(a.repo, r.val)]
      [] r.tag = "LastCommitMessage" ->
            [a EXCEPT !.repo = with_last_commit_message(a.repo, r.val)]
      [] OTHER -> a

\* The fold over a whole result collection, as the for loop computes it:
\* the first Err in order is returned, else the built MergeRequestBody.
RECURSIVE fold_from(_, _, _)
fold_from(rs, i, a) ==
    IF i > Len(rs) THEN [kind |-> "ok", err |-> 0, body |-> a]
    ELSE IF rs[i].kind = "err" THEN [kind |-> "err", err |-> rs[i].val, body |-> AccInit]
    ELSE fold_from(rs, i + 1, match_ok(a, rs[i]))

(***************************************************************************)
(* Header values and numbers (src/io.rs)                                    *)
(*                                                                          *)
(* A header value is a sequence of characters. A number is the sequence of  *)
(* its decimal digits without leading zeros, so that the u32 and u64 ranges *)
(* are exact.                                                               *)
(***************************************************************************)
DigitChars == {"0", "1", "2", "3", "4", "5", "6", "7", "8", "9"}

DigitOf(c) ==
    CASE c = "0" -> 0 [] c = "1" -> 1 [] c = "2" -> 2 [] c = "3" -> 3
      [] c = "4" -> 4 [] c = "5" -> 5 [] c = "6" -> 6 [] c = "7" -> 7
      [] c = "8" -> 8 [] c = "9" -> 9

U32Max == <<4, 2, 9, 4, 9, 6, 7, 2, 9, 5>>
U64Max == <<1, 8, 4, 4, 6, 7, 4, 4, 0, 7, 3, 7, 0, 9, 5, 5, 1, 6, 1, 5>>

\* The digits of a natural number.
RECURSIVE NumOf(_)
NumOf(n) == IF n < 10 THEN <<n>> ELSE Append(NumOf(n \div 10), n % 10)

RECURSIVE StripZeros(_)
StripZeros(d) == IF Len(d) > 1 /\ d[1] = 0 THEN StripZeros(Tail(d)) ELSE d

\* a > b for digit sequences of the same length
RECURSIVE GreaterSameLen(_, _)
GreaterSameLen(a, b) ==
    IF a = <<>> THEN FALSE
    ELSE IF a[1] # b[1] THEN a[1] > b[1]
    ELSE GreaterSameLen(Tail(a), Tail(b))

NumGreater(a, b) ==
    \/ Len(a) > Len(b)
    \/ Len(a) = Len(b) /\ GreaterSameLen(a, b)

ParseErr == [ok |-> FALSE, num |-> <<0>>]

\* str::parse for an unsigned integer type of maximum max: an optional
\* leading "+", then one or more decimal digits; empty text, a lone sign,
\* any other character (a "-" too) and a value above max are errors.
parse_unsigned(s, max) ==
    IF s = <<>> THEN ParseErr
    ELSE IF Len(s) = 1 /\ s[1] \in {"+", "-"} THEN ParseErr
    ELSE LET digits == IF s[1] = "+" THEN Tail(s) ELSE s
         IN  IF \E k \in 1..Len(digits) : digits[k] \notin DigitChars THEN ParseErr
             ELSE LET n == StripZeros([k \in 1..Len(digits) |-> DigitOf(digits[k])])
                  IN  IF NumGreater(n, max) THEN ParseErr
                      ELSE [ok |-> TRUE, num |-> n]

\* A parse of the remaining value that accepts the whole u64 range.
parse_u32_as_u64(s) == parse_unsigned(s, U64Max)

parse_u32(s) == parse_unsigned(s, U32Max)
parse_u64(s) == parse_unsigned(s, U64Max)

unwrap_or(p, default) == IF p.ok THEN p.num ELSE default

(***************************************************************************)
(* Response (src/io.rs)                                                     *)
(***************************************************************************)
GITHUB_RATELIMIT_REMAINING == "x-ratelimit-remaining"
GITHUB_RATELIMIT_RESET == "x-ratelimit-reset"
GITLAB_RATELIMIT_REMAINING == "ratelimit-remaining"
GITLAB_RATELIMIT_RESET == "ratelimit-reset"

DefaultRemainingRequests == 80
DefaultResetHorizon == 60

NoHeaders == [some |-> FALSE, map |-> [k \in {} |-> <<>>]]

\* A Response::new() whose defaults were left at zero.
Response_new_zero_defaults(t) ==
    [status |-> 0, body |-> <<>>, headers |-> NoHeaders,
     link_header_processor |-> "parse_link_headers",
     time_to_ratelimit_reset |-> t,
     remaining_requests |-> 0]

\* Response::new() at clock reading t.
Response_new(t) ==
    [status |-> 0, body |-> <<>>, headers |-> NoHeaders,
     link_header_processor |-> "parse_link_headers",
     time_to_ratelimit_reset |-> t + DefaultResetHorizon,
     remaining_requests |-> DefaultRemainingRequests]

with_headers(r, h) == [r EXCEPT !.headers = [some |-> TRUE, map |-> h]]

\* #[derive(Default)] of RateLimitHeader: remaining 0, reset Seconds::default().
SecondsDefault == <<0>>
RateLimitHeaderDefault == [remaining |-> <<0>>, reset |-> SecondsDefault]

NoneRL == [some |-> FALSE, remaining |-> <<0>>, reset |-> <<0>>]
SomeRL(h) == [some |-> TRUE, remaining |-> h.remaining, reset |-> h.reset]

NoValue == [some |-> FALSE, val |-> <<>>]

\* The key as a case-insensitive lookup would see it.
Lower(k) ==
    CASE k = "RateLimit-remaining" -> "ratelimit-remaining"
      [] k = "rateLimit-reset" -> "ratelimit-reset"
      [] OTHER -> k

\* A lookup that ignores the case of the keys.
headers_get_ignoring_case(h, key) ==
    IF \E k \in DOMAIN h : Lower(k) = key
    THEN [some |-> TRUE, val |-> h[CHOOSE k \in DOMAIN h : Lower(k) = key]]
    ELSE NoValue

\* HashMap::get: the value stored under exactly this key.
headers_get(h, key) ==
    IF key \in DOMAIN h THEN [some |-> TRUE, val |-> h[key]] ELSE NoValue

\* One unparsable field makes both fields fall back to the defaults.
ratelimit_of_coupled_fallback(r, remaining, reset_key) ==
    LET reset == headers_get(r.headers.map, reset_key)
        bad == \/ ~parse_u32(remaining).ok
               \/ reset.some /\ ~parse_u64(reset.val).ok
    IN  [remaining |-> IF bad THEN NumOf(r.remaining_requests)
                       ELSE parse_u32(remaining).num,
         reset |-> IF ~reset.some THEN RateLimitHeaderDefault.reset
                   ELSE IF bad THEN NumOf(r.time_to_ratelimit_reset)
                   ELSE parse_u64(reset.val).num]

\* The body of one `if let Some(remaining) = headers.get(REMAINING)` block.
ratelimit_of(r, remaining, reset_key) ==
    LET reset == headers_get(r.headers.map, reset_key)
    IN  [remaining |-> unwrap_or(parse_u32(remaining), NumOf(r.remaining_requests)),
         reset |-> IF reset.some
                   THEN unwrap_or(parse_u64(reset.val), NumOf(r.time_to_ratelimit_reset))
                   ELSE RateLimitHeaderDefault.reset]

\* The Gitlab block reads the Github reset key.
get_ratelimit_headers_wrong_reset_key(r) ==
    IF ~r.headers.some THEN NoneRL
    ELSE LET github == headers_get(r.headers.map, GITHUB_RATELIMIT_REMAINING)
             gitlab == headers_get(r.headers.map, GITLAB_RATELIMIT_REMAINING)
         IN  IF github.some
             THEN SomeRL(ratelimit_of(r, github.val, GITHUB_RATELIMIT_RESET))
             ELSE IF gitlab.some
             THEN SomeRL(ratelimit_of(r, gitlab.val, GITHUB_RATELIMIT_RESET))
             ELSE NoneRL

\* The defaults are reported when no family is found.
get_ratelimit_headers_default_when_absent(r) ==
    IF ~r.headers.some THEN SomeRL(RateLimitHeaderDefault)
    ELSE LET github == headers_get(r.headers.map, GITHUB_RATELIMIT_REMAINING)
             gitlab == headers_get(r.headers.map, GITLAB_RATELIMIT_REMAINING)
         IN  IF github.some
             THEN SomeRL(ratelimit_of(r, github.val, GITHUB_RATELIMIT_RESET))
             ELSE IF gitlab.some
             THEN SomeRL(ratelimit_of(r, gitlab.val, GITLAB_RATELIMIT_RESET))
             ELSE SomeRL(RateLimitHeaderDefault)

\* The fallback of an unparsable reset is computed from the clock at the
\* time of the call.
get_ratelimit_headers_reads_clock(r) ==
    LET rnow == [r EXCEPT !.time_to_ratelimit_reset = now + DefaultResetHorizon]
    IN  IF ~r.headers.some THEN NoneRL
        ELSE LET github == headers_get(r.headers.map, GITHUB_RATELIMIT_REMAINING)
                 gitlab == headers_get(r.headers.map, GITLAB_RATELIMIT_REMAINING)
             IN  IF github.some
                 THEN SomeRL(ratelimit_of(rnow, github.val, GITHUB_RATELIMIT_RESET))
                 ELSE IF gitlab.some
                 THEN SomeRL(ratelimit_of(rnow, gitlab.val, GITLAB_RATELIMIT_RESET))
                 ELSE NoneRL

\* The ratelimit-* keys are checked before the x-ratelimit-* keys.
get_ratelimit_headers_gitlab_first(r) ==
    IF ~r.headers.some THEN NoneRL
    ELSE LET github == headers_get(r.headers.map, GITHUB_RATELIMIT_REMAINING)
             gitlab == headers_get(r.headers.map, GITLAB_RATELIMIT_REMAINING)
         IN  IF gitlab.some
             THEN SomeRL(ratelimit_of(r, gitlab.val, GITLAB_RATELIMIT_RESET))
             ELSE IF github.some
             THEN SomeRL(ratelimit_of(r, github.val, GITHUB_RATELIMIT_RESET))
             ELSE NoneRL

\* Response::get_ratelimit_headers
get_ratelimit_headers(r) ==
    IF ~r.headers.some THEN NoneRL
    ELSE LET github == headers_get(r.headers.map, GITHUB_RATELIMIT_REMAINING)
             gitlab == headers_get(r.headers.map, GITLAB_RATELIMIT_REMAINING)
         IN  IF github.some
             THEN SomeRL(ratelimit_of(r, github.val, GITHUB_RATELIMIT_RESET))
             ELSE IF gitlab.some
             THEN SomeRL(ratelimit_of(r, gitlab.val, GITLAB_RATELIMIT_RESET))
             ELSE NoneRL

(***************************************************************************)
(* The responses of the model                                               *)
(***************************************************************************)
Nows == {1000, 2000}

V_30 == <<"3", "0">>
V_0 == <<"0">>
V_plus5 == <<"+", "5">>
V_minus1 == <<"-", "1">>
V_empty == <<>>
V_reset == <<"1", "6", "5", "8", "6", "0", "2", "2", "7", "0">>
V_u32_over == <<"4", "2", "9", "4", "9", "6", "7", "2", "9", "6">>
V_u64_over == <<"1", "8", "4", "4", "6", "7", "4", "4", "0", "7", "3", "7", "0", "9",
                "5", "5", "1", "6", "1", "6">>

HeaderValues == {V_30, V_0, V_plus5, V_minus1, V_empty, V_reset, V_u32_over, V_u64_over}

RateLimitKeys ==
    {GITHUB_RATELIMIT_REMAINING, GITHUB_RATELIMIT_RESET,
     GITLAB_RATELIMIT_REMAINING, GITLAB_RATELIMIT_RESET}

\* The keys of test_get_rate_limit_headers_camelcase_gitlab.
CamelCaseKeys == {"RateLimit-remaining", "rateLimit-reset"}

HeaderKeys == RateLimitKeys \cup CamelCaseKeys

ValuesOf(k) ==
    CASE k = "RateLimit-remaining" -> {V_30}
      [] k = "rateLimit-reset" -> {V_reset}
      [] OTHER -> HeaderValues

HeaderMaps ==
    UNION {{h \in [K -> HeaderValues] : \A k \in K : h[k] \in ValuesOf(k)} :
           K \in SUBSET HeaderKeys}

NotCalled == [called |-> FALSE, out |-> NoneRL]

\* Response::with_headers, once, on the Response under construction.
WithHeaders ==
    /\ ~resp.headers.some
    /\ ~rl.called
    /\ \E h \in HeaderMaps : resp' = with_headers(resp, h)
    /\ UNCHANGED <<now, rl>>
    /\ UNCHANGED execVars
    /\ UNCHANGED callVars

\* A call of Response::get_ratelimit_headers.
GetRatelimitHeaders ==
    /\ rl' = [called |-> TRUE, out |-> get_ratelimit_headers(resp)]
    /\ UNCHANGED <<now, resp>>
    /\ UNCHANGED execVars
    /\ UNCHANGED callVars

(***************************************************************************)
(* exec::parallel_stream                                                    *)
(***************************************************************************)
N == Len(cmds)

Filled == {i \in 1..N : results[i].kind # "none"}

\* The slot completions are written by arrival, not by submission index.
SlotByCompletion(i) == Cardinality(Filled) + 1

\* The slot the outcome of command i is written to: its submission index.
SlotOf(i) == i

\* A worker that is abandoned once the caller has its answer.
AbandonedAfterReturn(i) == worker[i] = "running" /\ ret.kind = "pending"

\* A started command runs to its completion whatever its siblings and the
\* caller do.
CanComplete(i) == worker[i] = "running"

\* The executor starts the commands of the batch, in order.
Spawn ==
    /\ nstarted < N
    /\ nstarted' = nstarted + 1
    /\ worker' = [worker EXCEPT ![nstarted + 1] = "running"]
    /\ UNCHANGED <<cmds, results, firstDone, lastDone, lateDone, foldIdx, acc, ret>>
    /\ UNCHANGED respVars
    /\ UNCHANGED callVars

\* Command i completes and its outcome is stored.
Complete(i) ==
    /\ CanComplete(i)
    /\ worker' = [worker EXCEPT ![i] = "done"]
    /\ results' = [results EXCEPT ![SlotOf(i)] = Outcome(cmds, i)]
    /\ firstDone' = IF firstDone = 0 THEN i ELSE firstDone
    /\ lastDone' = i
    /\ lateDone' = (lateDone \/ ret.kind # "pending")
    /\ UNCHANGED <<cmds, nstarted, foldIdx, acc, ret>>
    /\ UNCHANGED respVars
    /\ UNCHANGED callVars

(***************************************************************************)
(* get_repo_project_info: the for loop over the results                     *)
(***************************************************************************)
\* The fold returns its last failure instead of its first.
FoldErrContinues(r) ==
    /\ ret' = [kind |-> IF foldIdx = N THEN "err" ELSE "pending",
               err |-> r.val, body |-> AccInit]
    /\ foldIdx' = foldIdx + 1
    /\ acc' = acc

\* Err(e) => return Err(e)
FoldErr(r) ==
    /\ ret' = [kind |-> "err", err |-> r.val, body |-> AccInit]
    /\ foldIdx' = foldIdx
    /\ acc' = acc

\* One iteration: the next result, in submission order, is matched.
FoldStep ==
    /\ ret.kind = "pending"
    /\ nstarted = N
    /\ foldIdx <= N
    /\ results[foldIdx].kind # "none"
    /\ IF results[foldIdx].kind = "err"
       THEN FoldErr(results[foldIdx])
       ELSE /\ acc' = match_ok(acc, results[foldIdx])
            /\ foldIdx' = foldIdx + 1
            /\ ret' = ret
    /\ UNCHANGED <<cmds, nstarted, worker, results, firstDone, lastDone, lateDone>>
    /\ UNCHANGED respVars
    /\ UNCHANGED callVars

\* After the loop: Ok(MergeRequestBody { repo, project, members }).
FoldFinish ==
    /\ ret.kind = "pending"
    /\ nstarted = N
    /\ foldIdx = N + 1
    /\ ret' = [kind |-> "ok", err |-> 0, body |-> acc]
    /\ UNCHANGED <<cmds, nstarted, worker, results, firstDone, lastDone, lateDone,
                   foldIdx, acc>>
    /\ UNCHANGED respVars
    /\ UNCHANGED callVars

(***************************************************************************)
(* parse_link_headers (src/io.rs)                                           *)
(***************************************************************************)
MaxEntries == 2

MaxCalls == 2

MaxTicks == 1

\* The most members a project has.
MaxMembers == 2

NEXT == <<"n", "e", "x", "t">>
LAST == <<"l", "a", "s", "t">>
LINK_HEADER == "link"

\* A relation name that is neither NEXT nor LAST.
PREV == <<"p", "r", "e", "v">>

\* s holds the text pat at position i.
StartsWith(s, i, pat) ==
    /\ i >= 1
    /\ i + Len(pat) - 1 <= Len(s)
    /\ \A k \in 1..Len(pat) : s[i + k - 1] = pat[k]

\* The first position at or after i of a character of C; 0 when none.
FirstIn(s, i, C) ==
    IF \E k \in i..Len(s) : s[k] \in C
    THEN CHOOSE k \in i..Len(s) : s[k] \in C /\ \A m \in i..(k - 1) : s[m] \notin C
    ELSE 0

\* The first position at or after i of a character outside C; Len(s) + 1
\* when none.
FirstNotIn(s, i, C) ==
    IF \E k \in i..Len(s) : s[k] \notin C
    THEN CHOOSE k \in i..Len(s) : s[k] \notin C /\ \A m \in i..(k - 1) : s[m] \in C
    ELSE Len(s) + 1

\* \s
Whitespace == {" ", "\t", "\n", "\r", "\f"}

RelEq == <<"r", "e", "l", "=", "\"">>

NoUrlMatch == [found |-> FALSE, url |-> <<>>, rel |-> <<>>, end |-> 0]

\* RE_URL, <([^>]+)>;\s*rel="([^"]+)", matched at position i: the two
\* captures and the position of the closing quote.
RE_URL_at(s, i) ==
    IF ~(i <= Len(s) /\ s[i] = "<") THEN NoUrlMatch
    ELSE LET j == FirstIn(s, i + 1, {">"})
         IN  IF j = 0 \/ j = i + 1 \/ ~StartsWith(s, j + 1, <<";">>) THEN NoUrlMatch
             ELSE LET k == FirstNotIn(s, j + 2, Whitespace)
                  IN  IF ~StartsWith(s, k, RelEq) THEN NoUrlMatch
                      ELSE LET q == FirstIn(s, k + Len(RelEq), {"\""})
                           IN  IF q = 0 \/ q = k + Len(RelEq) THEN NoUrlMatch
                               ELSE [found |-> TRUE,
                                     url |-> SubSeq(s, i + 1, j - 1),
                                     rel |-> SubSeq(s, k + Len(RelEq), q - 1),
                                     end |-> q]

\* RE_URL.captures_iter: the matches from the left, none overlapping.
RECURSIVE RE_URL_captures(_, _)
RE_URL_captures(s, from) ==
    LET i == FirstIn(s, from, {"<"})
    IN  IF i = 0 THEN <<>>
        ELSE LET m == RE_URL_at(s, i)
             IN  IF m.found THEN <<m>> \o RE_URL_captures(s, m.end + 1)
                 ELSE RE_URL_captures(s, i + 1)

\* The characters of the class [^(per_)] are all but these six.
NotBeforePage == {"(", "p", "e", "r", "_", ")"}

PageEq == <<"p", "a", "g", "e", "=">>

NoPageMatch == [found |-> FALSE, digits |-> <<>>, end |-> 0]

\* RE_PAGE_NUMBER, [^(per_)]page=(\d+), matched at position i.
RE_PAGE_NUMBER_at(u, i) ==
    IF /\ i <= Len(u)
       /\ u[i] \notin NotBeforePage
       /\ StartsWith(u, i + 1, PageEq)
       /\ i + 1 + Len(PageEq) <= Len(u)
       /\ u[i + 1 + Len(PageEq)] \in DigitChars
    THEN LET e == FirstNotIn(u, i + 1 + Len(PageEq), DigitChars) - 1
         IN  [found |-> TRUE, digits |-> SubSeq(u, i + 1 + Len(PageEq), e), end |-> e]
    ELSE NoPageMatch

\* RE_PAGE_NUMBER.captures_iter
RECURSIVE RE_PAGE_NUMBER_captures(_, _)
RE_PAGE_NUMBER_captures(u, from) ==
    IF from > Len(u) THEN <<>>
    ELSE LET m == RE_PAGE_NUMBER_at(u, from)
         IN  IF m.found THEN <<m>> \o RE_PAGE_NUMBER_captures(u, m.end + 1)
             ELSE RE_PAGE_NUMBER_captures(u, from + 1)

NoPage == [some |-> FALSE, url |-> <<>>, number |-> <<0>>]

Page_new(url, number) == [some |-> TRUE, url |-> url, number |-> number]

PageHeader_new == [next |-> NoPage, last |-> NoPage]

\* A URL without a page capture gets a Page with number 0.
RECURSIVE page_of_captures_zero_without_capture(_, _, _)
page_of_captures_zero_without_capture(url, caps, page) ==
    IF caps = <<>> THEN Page_new(url, <<0>>)
    ELSE IF Len(caps) = 1
    THEN Page_new(url, unwrap_or(parse_u32(caps[1].digits), <<0>>))
    ELSE page_of_captures_zero_without_capture(url, Tail(caps), page)

\* for page_cap in RE_PAGE_NUMBER.captures_iter(&url): every capture sets
\* the page anew; page is the field's value before the loop.
RECURSIVE page_of_captures(_, _, _)
page_of_captures(url, caps, page) ==
    IF caps = <<>> THEN page
    ELSE page_of_captures(url, Tail(caps),
             Page_new(url, unwrap_or(parse_u32(caps[1].digits), <<0>>)))

\* The NEXT branch also runs for LAST entries and the LAST branch for NEXT
\* entries.
parse_capture_any_rel(header, cap) ==
    LET pcs == RE_PAGE_NUMBER_captures(cap.url, 1)
    IN  IF cap.rel \in {NEXT, LAST}
        THEN [next |-> page_of_captures(cap.url, pcs, header.next),
              last |-> page_of_captures(cap.url, pcs, header.last)]
        ELSE header

\* The NEXT branch sets last and the LAST branch sets next.
parse_capture_swapped_fields(header, cap) ==
    LET pcs == RE_PAGE_NUMBER_captures(cap.url, 1)
        h1 == IF cap.rel = NEXT
              THEN [header EXCEPT !.last = page_of_captures(cap.url, pcs, header.last)]
              ELSE header
    IN  IF cap.rel = LAST
        THEN [h1 EXCEPT !.next = page_of_captures(cap.url, pcs, h1.next)]
        ELSE h1

\* The body of `for cap in RE_URL.captures_iter(link)`.
parse_capture(header, cap) ==
    LET pcs == RE_PAGE_NUMBER_captures(cap.url, 1)
        h1 == IF cap.rel = NEXT
              THEN [header EXCEPT !.next = page_of_captures(cap.url, pcs, header.next)]
              ELSE header
    IN  IF cap.rel = LAST
        THEN [h1 EXCEPT !.last = page_of_captures(cap.url, pcs, h1.last)]
        ELSE h1

RECURSIVE parse_captures(_, _)
parse_captures(caps, header) ==
    IF caps = <<>> THEN header
    ELSE parse_captures(Tail(caps), parse_capture(header, caps[1]))

parse_link_headers(text) == parse_captures(RE_URL_captures(text, 1), PageHeader_new)

(***************************************************************************)
(* The link headers of the model                                            *)
(***************************************************************************)
BaseUrl == <<"h", "t", "t", "p", "s", ":", "/", "/", "h", "/", "m", "r">>

Q_page2 == <<"?", "p", "a", "g", "e", "=", "2">>
Q_page2_per20 == <<"?", "p", "a", "g", "e", "=", "2", "&", "p", "e", "r", "_", "p", "a",
      "g", "e", "=", "2", "0">>
Q_per20_page3 == <<"?", "p", "e", "r", "_", "p", "a", "g", "e", "=", "2", "0", "&", "p",
      "a", "g", "e", "=", "3">>
Q_state_page1 == <<"?", "s", "t", "a", "t", "e", "=", "o", "p", "e", "n", "e", "d", "&",
      "p", "a", "g", "e", "=", "1">>
Q_state == <<"?", "s", "t", "a", "t", "e", "=", "o", "p", "e", "n", "e", "d">>
Q_page_abc == <<"?", "p", "a", "g", "e", "=", "a", "b", "c">>
Q_page_empty == <<"?", "p", "a", "g", "e", "=">>
Q_page_over == <<"?", "p", "a", "g", "e", "=", "4", "2", "9", "4", "9", "6", "7", "2",
      "9", "6">>
Q_page2_webpage7 == <<"?", "p", "a", "g", "e", "=", "2", "&", "w", "e", "b", "p", "a", "g",
      "e", "=", "7">>

Queries ==
    {Q_page2, Q_page2_per20, Q_per20_page3, Q_state_page1, Q_state, Q_page_abc,
     Q_page_empty, Q_page_over, Q_page2_webpage7}

Rels == {NEXT, LAST, PREV}

\* One `<url>; rel="name"` entry: the query string of its URL and its name.
Entries == [query : Queries, rel : Rels]

Links == UNION {[1..n -> Entries] : n \in 0..MaxEntries}

UrlOf(e) == BaseUrl \o e.query

\* ---- entries that miss a part of the form ----
\* How an entry is written: as `<url>; rel="name"`, or with one part of
\* that form missing.
Forms ==
    {"ok", "no_close", "no_open", "no_semicolon", "no_quotes", "open_quote",
     "empty_url", "bare"}

FormQueries == {Q_page2, Q_per20_page3, Q_state}

FormEntries == [query : FormQueries, rel : {NEXT, LAST}, form : Forms]

FormLinks == UNION {[1..n -> FormEntries] : n \in 0..MaxEntries}

\* The text of an entry written in its form.
FormText(e) ==
    LET u == UrlOf(e)
        q == <<"\"">>
    IN  CASE e.form = "ok" -> <<"<">> \o u \o <<">", ";", " ">> \o RelEq \o e.rel \o q
          [] e.form = "no_close" -> <<"<">> \o u \o <<";", " ">> \o RelEq \o e.rel \o q
          [] e.form = "no_open" -> u \o <<">", ";", " ">> \o RelEq \o e.rel \o q
          [] e.form = "no_semicolon" -> <<"<">> \o u \o <<">", " ">> \o RelEq \o e.rel \o q
          [] e.form = "no_quotes" ->
                <<"<">> \o u \o <<">", ";", " ", "r", "e", "l", "=">> \o e.rel
          [] e.form = "open_quote" -> <<"<">> \o u \o <<">", ";", " ">> \o RelEq \o e.rel
          [] e.form = "empty_url" -> <<"<", ">", ";", " ">> \o RelEq \o e.rel \o q
          [] e.form = "bare" -> u

EntryText(e) ==
    IF "form" \in DOMAIN e THEN FormText(e)
    ELSE <<"<">> \o UrlOf(e) \o <<">", ";", " ">> \o RelEq \o e.rel \o <<"\"">>

\* The header value: the entries, separated by ", ".
RECURSIVE LinkText(_)
LinkText(es) ==
    IF es = <<>> THEN <<>>
    ELSE IF Len(es) = 1 THEN EntryText(es[1])
    ELSE EntryText(es[1]) \o <<",", " ">> \o LinkText(Tail(es))

NotParsed == [called |-> FALSE, out |-> PageHeader_new]

\* A call of parse_link_headers on the header value.
ParseLinkHeaders ==
    /\ ~ph.called
    /\ ph' = [called |-> TRUE, out |-> parse_link_headers(LinkText(link))]
    /\ UNCHANGED <<link, pages, calls, call>>
    /\ UNCHANGED execVars
    /\ UNCHANGED respVars

(***************************************************************************)
(* Response: the builders and the accessors (src/io.rs)                     *)
(***************************************************************************)
Response_with_status(r, st) == [r EXCEPT !.status = st]

Response_with_body(r, output) == [r EXCEPT !.body = output]

\* The name as a lookup that ignores letter case would see it.
LowerName(k) == IF k \in {"ETag", "Etag"} THEN "etag" ELSE k

\* A header lookup that ignores the letter case of the name and of the keys.
header_ignoring_case(r, key) ==
    IF r.headers.some /\ \E k \in DOMAIN r.headers.map : LowerName(k) = LowerName(key)
    THEN [some |-> TRUE,
          val |-> r.headers.map[CHOOSE k \in DOMAIN r.headers.map :
                                    LowerName(k) = LowerName(key)]]
    ELSE NoValue

\* Response::header
header(r, key) ==
    IF r.headers.some THEN headers_get(r.headers.map, key) ELSE NoValue

ETAG == "etag"

\* Response::get_etag
get_etag(r) == header(r, ETAG)

\* Response::status
status(r) == r.status

NonePH == [some |-> FALSE, out |-> PageHeader_new]

SomePH(h) == [some |-> TRUE, out |-> h]

\* The functions a Response may hold as its link header processor:
\* parse_link_headers, which Response::new() sets, and two an adapter may
\* inject: one that reports no pages, one that takes the whole header value
\* for the URL of the next page, page 1.
InjectedProcessors == {"no_pages", "whole_value_is_next"}

apply_processor(processor, text) ==
    CASE processor = "parse_link_headers" -> parse_link_headers(text)
      [] processor = "no_pages" -> PageHeader_new
      [] processor = "whole_value_is_next" ->
            [next |-> Page_new(text, <<1>>), last |-> NoPage]

\* (self.link_header_processor)(link)
link_header_processor(r, text) == apply_processor(r.link_header_processor, text)

\* get_page_headers calls parse_link_headers whatever processor the
\* Response holds.
get_page_headers_builtin_only(r) ==
    IF r.headers.some
    THEN LET l == headers_get(r.headers.map, LINK_HEADER)
         IN  IF l.some THEN SomePH(parse_link_headers(l.val)) ELSE NonePH
    ELSE NonePH

\* Response::get_page_headers
get_page_headers(r) ==
    IF r.headers.some
    THEN LET l == headers_get(r.headers.map, LINK_HEADER)
         IN  IF l.some THEN SomePH(link_header_processor(r, l.val)) ELSE NonePH
    ELSE NonePH

(***************************************************************************)
(* num_pages (src/gitlab/merge_request.rs, src/github.rs, query::num_pages) *)
(***************************************************************************)
\* Who asks: the merge requests of a Gitlab project, those assigned to a
\* user, or the pipeline runs of a Github project.
Callers ==
    {[vendor |-> "gitlab", assignee_id |-> "none"],
     [vendor |-> "gitlab", assignee_id |-> "1234"],
     [vendor |-> "github", assignee_id |-> "none"]}

\* Gitlab::list_merge_request_url: the pieces the URL is formatted from.
list_merge_request_url(c, num_pages) ==
    (IF c.assignee_id # "none"
     THEN <<"merge_requests_url", "?state=", "opened", "&assignee_id=", c.assignee_id>>
     ELSE <<"rest_api_basepath", "/merge_requests?state=", "opened">>)
    \o (IF num_pages THEN <<"&page=1">> ELSE <<>>)

\* Github, Cicd::num_pages: the URL of the first page of the runs.
github_num_pages_url == <<"rest_api_basepath", "/repos/", "path", "/actions/runs?page=1">>

\* The URL num_pages asks for.
num_pages_url(c) ==
    IF c.vendor = "gitlab" THEN list_merge_request_url(c, TRUE)
    ELSE github_num_pages_url

ErrPages == [kind |-> "err", some |-> FALSE, n |-> <<0>>]

OkNone == [kind |-> "ok", some |-> FALSE, n |-> <<0>>]

OkSome(n) == [kind |-> "ok", some |-> TRUE, n |-> n]

\* What num_pages gives for a successful response without page headers, as
\* the tests of the two callers have it: Some(1) for the merge requests of
\* Gitlab (test_gitlab_merge_request_num_pages_no_link_header_error), an
\* error for the runs of Github (test_num_pages_error_retrieving_last_page).
no_link_header_outcome(c) ==
    IF c.vendor = "gitlab" THEN OkSome(<<1>>) ELSE ErrPages

OkStatuses == 200..299

PageStatuses == {200, 400}

\* query::num_pages on the response of its one request; absent is the outcome
\* for a response without page headers.
query_num_pages(response, absent) ==
    IF status(response) \notin OkStatuses THEN ErrPages
    ELSE LET h == get_page_headers(response)
         IN  IF ~h.some THEN absent
             ELSE IF h.out.last.some THEN OkSome(h.out.last.number)
             ELSE OkNone

NotAsked(c) ==
    [called |-> FALSE, caller |-> c, requests |-> <<>>, header |-> NonePH,
     result |-> OkNone]

NoPagesCall == NotAsked([vendor |-> "gitlab", assignee_id |-> "none"])

\* The response of the remote: without headers, with headers that have no
\* link key, or with the link header of the model.
PageResponses(es) ==
    {Response_with_status(Response_new(0), st) : st \in PageStatuses}
    \cup {with_headers(Response_with_status(Response_new(0), st), (LINK_HEADER :> LinkText(es))) :
             st \in PageStatuses}
    \cup (IF es = <<>>
          THEN {with_headers(Response_with_status(Response_new(0), st), (ETAG :> <<"W">>)) :
                   st \in PageStatuses}
          ELSE {})

\* A call of num_pages: one request, then query::num_pages on its response.
NumPages ==
    /\ ~pages.called
    /\ pages' = [called |-> TRUE,
                 caller |-> pages.caller,
                 requests |-> Append(pages.requests, num_pages_url(pages.caller)),
                 header |-> get_page_headers(resp),
                 result |-> query_num_pages(resp, no_link_header_outcome(pages.caller))]
    /\ UNCHANGED <<link, ph, calls, call>>
    /\ UNCHANGED execVars
    /\ UNCHANGED respVars

(***************************************************************************)
(* A Response and the calls of its accessors                                *)
(***************************************************************************)
V_etag == <<"W", "/", "1">>

V_body == <<"{", "}">>

\* The link header of test_gitlab_merge_request_num_pages, pages 2 and 3.
AccLink ==
    LinkText(<<[query |-> Q_page2, rel |-> NEXT], [query |-> Q_per20_page3, rel |-> LAST]>>)

AccKeys == {ETAG, LINK_HEADER, GITHUB_RATELIMIT_REMAINING, GITHUB_RATELIMIT_RESET}

AccValues(k) ==
    CASE k = ETAG -> {V_etag}
      [] k = LINK_HEADER -> {AccLink}
      [] k = GITHUB_RATELIMIT_REMAINING -> {V_30, V_minus1}
      [] k = GITHUB_RATELIMIT_RESET -> {V_reset, V_empty}

AccHeaderMaps ==
    UNION {{h \in [K -> UNION {AccValues(k) : k \in K}] : \A k \in K : h[k] \in AccValues(k)} :
           K \in SUBSET AccKeys}

AccStatuses == {200, 304}

\* The Responses constructed at clock reading t: Response::new() with a
\* status, and with a body and headers.
AccResponses(t) ==
    {Response_with_status(Response_new(t), st) : st \in AccStatuses}
    \cup {with_headers(Response_with_body(Response_with_status(Response_new(t), st), V_body), h) :
             st \in AccStatuses, h \in AccHeaderMaps}

\* The record of one accessor call: the accessor, its argument, the clock
\* reading at the call and the value returned.
Called(fn, key, out) == [fn |-> fn, key |-> key, at |-> now, out |-> out]

CallGetEtag ==
    /\ Len(calls) < MaxCalls
    /\ calls' = Append(calls, Called("get_etag", "", get_etag(resp)))
    /\ UNCHANGED <<link, ph, pages, call>>
    /\ UNCHANGED execVars
    /\ UNCHANGED respVars

CallGetPageHeaders ==
    /\ Len(calls) < MaxCalls
    /\ calls' = Append(calls, Called("get_page_headers", "", get_page_headers(resp)))
    /\ UNCHANGED <<link, ph, pages, call>>
    /\ UNCHANGED execVars
    /\ UNCHANGED respVars

CallGetRatelimitHeaders ==
    /\ Len(calls) < MaxCalls
    /\ calls' = Append(calls, Called("get_ratelimit_headers", "", get_ratelimit_headers(resp)))
    /\ UNCHANGED <<link, ph, pages, call>>
    /\ UNCHANGED execVars
    /\ UNCHANGED respVars

CallHeader ==
    /\ Len(calls) < MaxCalls
    /\ \E k \in AccKeys : calls' = Append(calls, Called("header", k, header(resp, k)))
    /\ UNCHANGED <<link, ph, pages, call>>
    /\ UNCHANGED execVars
    /\ UNCHANGED respVars

CallStatus ==
    /\ Len(calls) < MaxCalls
    /\ calls' = Append(calls, Called("status", "", status(resp)))
    /\ UNCHANGED <<link, ph, pages, call>>
    /\ UNCHANGED execVars
    /\ UNCHANGED respVars

\* The time at which the Response was constructed.
ConstructedAt == resp.time_to_ratelimit_reset - DefaultResetHorizon

\* A second passes between two calls.
Tick ==
    /\ now < ConstructedAt + MaxTicks
    /\ now' = now + 1
    /\ UNCHANGED <<resp, rl>>
    /\ UNCHANGED callVars
    /\ UNCHANGED execVars

(***************************************************************************)
(* Response::with_header_processor and the processors of the model          *)
(***************************************************************************)
\* Response::with_header_processor
with_header_processor(r, processor) == [r EXCEPT !.link_header_processor = processor]

\* The link headers of these Responses: next and last entries with and
\* without a page number.
ProcLinks ==
    UNION {[1..n -> [query : {Q_page2, Q_per20_page3, Q_state}, rel : {NEXT, LAST}]] :
           n \in 0..MaxEntries}

\* The Responses get_page_headers is called on: without a header map, with
\* a header map without the link key, and with the link header es.
ProcResponses(es) ==
    {Response_with_status(Response_new(0), 200),
     with_headers(Response_with_status(Response_new(0), 200), (ETAG :> V_etag)),
     with_headers(Response_with_status(Response_new(0), 200),
                  (ETAG :> V_etag) @@ (LINK_HEADER :> LinkText(es))),
     with_headers(Response_with_status(Response_new(0), 200),
                  (LINK_HEADER :> LinkText(es)))}

\* The adapter injects its link header processor into the Response under
\* construction.
WithHeaderProcessor ==
    /\ calls = <<>>
    /\ resp.link_header_processor = "parse_link_headers"
    /\ \E p \in InjectedProcessors : resp' = with_header_processor(resp, p)
    /\ UNCHANGED <<now, rl>>
    /\ UNCHANGED callVars
    /\ UNCHANGED execVars

(***************************************************************************)
(* Header names in several casings                                          *)
(***************************************************************************)
V_etag2 == <<"W", "/", "2">>

\* The ETag header name as remotes and proxies write it.
EtagNames == {ETAG, "ETag", "Etag"}

\* The header maps that hold an ETag under some of these names.
EtagHeaderMaps ==
    UNION {[K -> {V_etag, V_etag2}] : K \in SUBSET EtagNames}

EtagResponses ==
    {Response_with_status(Response_new(0), 200)}
    \cup {with_headers(Response_with_status(Response_new(0), 200), h) : h \in EtagHeaderMaps}

\* A call of Response::header with one of the names.
CallHeaderNamed ==
    /\ Len(calls) < MaxCalls
    /\ \E k \in EtagNames : calls' = Append(calls, Called("header", k, header(resp, k)))
    /\ UNCHANGED <<link, ph, pages, call>>
    /\ UNCHANGED execVars
    /\ UNCHANGED respVars


(***************************************************************************)
(* in_feature_branch (src/merge_request.rs)                                 *)
(***************************************************************************)
OkUnit == [kind |-> "ok", err |-> "none"]

PreconditionNotMet == [kind |-> "err", err |-> "PreconditionNotMet"]

\* The match has no arm for "develop".
in_feature_branch_without_develop(current_branch, upstream_branch) ==
    IF current_branch = upstream_branch THEN PreconditionNotMet
    ELSE IF current_branch \in {"master", "main"} THEN PreconditionNotMet
    ELSE OkUnit

in_feature_branch(current_branch, upstream_branch) ==
    IF current_branch = upstream_branch THEN PreconditionNotMet
    ELSE IF current_branch \in {"master", "main", "develop"} THEN PreconditionNotMet
    ELSE OkUnit

Branches ==
    {"main", "master", "develop", "newfeature", "current-branch", "upstream-branch",
     "Main", "mainline", "feature/main", ""}

NoCall == [op |-> "none", input |-> <<>>, requests |-> <<>>, result |-> <<>>]

\* A call of in_feature_branch.
InFeatureBranch ==
    /\ call = NoCall
    /\ \E c, u \in Branches :
          call' = [op |-> "in_feature_branch",
                   input |-> [current_branch |-> c, upstream_branch |-> u],
                   requests |-> <<>>,
                   result |-> in_feature_branch(c, u)]
    /\ UNCHANGED <<link, ph, pages, calls>>
    /\ UNCHANGED execVars
    /\ UNCHANGED respVars

(***************************************************************************)
(* Gitlab, MergeRequest::open (src/gitlab/merge_request.rs)                 *)
(***************************************************************************)
RECURSIVE trim_start_matches(_, _)
trim_start_matches(s, c) ==
    IF s # <<>> /\ s[1] = c THEN trim_start_matches(Tail(s), c) ELSE s

RECURSIVE trim_end_matches(_, _)
trim_end_matches(s, c) ==
    IF s # <<>> /\ s[Len(s)] = c
    THEN trim_end_matches(SubSeq(s, 1, Len(s) - 1), c)
    ELSE s

\* str::trim_matches: c stripped from both ends.
trim_matches(s, c) == trim_end_matches(trim_start_matches(s, c), c)

\* split_whitespace().last(): the last run of characters that are not
\* whitespace; None when there is no such run.
split_whitespace_last(s) ==
    LET words == {k \in 1..Len(s) : s[k] \notin Whitespace}
    IN  IF words = {} THEN NoValue
        ELSE LET e == CHOOSE k \in words : \A m \in words : m <= k
                 b == CHOOSE k \in 1..e :
                          /\ \A m \in k..e : s[m] \notin Whitespace
                          /\ (k = 1 \/ s[k - 1] \in Whitespace)
             IN  [some |-> TRUE, val |-> SubSeq(s, b, e)]

I64Max == <<9, 2, 2, 3, 3, 7, 2, 0, 3, 6, 8, 5, 4, 7, 7, 5, 8, 0, 7>>
I64MinMagnitude == <<9, 2, 2, 3, 3, 7, 2, 0, 3, 6, 8, 5, 4, 7, 7, 5, 8, 0, 8>>

I64Err == [ok |-> FALSE, neg |-> FALSE, num |-> <<0>>]

I64(num) == [ok |-> TRUE, neg |-> FALSE, num |-> num]

\* str::parse::<i64>: an optional sign, then one or more decimal digits, the
\* value within the range of i64.
parse_i64(s) ==
    IF s = <<>> THEN I64Err
    ELSE LET neg == s[1] = "-"
             digits == IF s[1] \in {"+", "-"} THEN Tail(s) ELSE s
         IN  IF digits = <<>> \/ \E k \in 1..Len(digits) : digits[k] \notin DigitChars
             THEN I64Err
             ELSE LET n == StripZeros([k \in 1..Len(digits) |-> DigitOf(digits[k])])
                  IN  IF NumGreater(n, IF neg THEN I64MinMagnitude ELSE I64Max)
                      THEN I64Err
                      ELSE [ok |-> TRUE, neg |-> neg /\ n # <<0>>, num |-> n]

\* format!("https://{}/{}/-/merge_requests/{}", domain, path, iid)
MergeRequestUrl(domain, path, iid) == [domain |-> domain, path |-> path, iid |-> iid]

NoUrl == MergeRequestUrl("", "", <<>>)

OkMR(id, web_url) == [kind |-> "ok", id |-> id, web_url |-> web_url]

ErrMR == [kind |-> "err", id |-> I64(<<0>>), web_url |-> NoUrl]

\* An unwrap() of None or of an Err.
PanicMR == [kind |-> "panic", id |-> I64(<<0>>), web_url |-> NoUrl]

\* The conflict message of Gitlab, up to the id of the merge request.
ConflictPrefix ==
    <<"A", "n", "o", "t", "h", "e", "r", " ", "o", "p", "e", "n", " ", "m",
      "e", "r", "g", "e", " ", "r", "e", "q", "u", "e", "s", "t", " ", "a",
      "l", "r", "e", "a", "d", "y", " ", "e", "x", "i", "s", "t", "s", " ",
      "f", "o", "r", " ", "t", "h", "i", "s", " ", "s", "o", "u", "r", "c",
      "e", " ", "b", "r", "a", "n", "c", "h", ":", " ">>

ConflictMessage(iid) == ConflictPrefix \o <<"!">> \o iid

\* The ids of the merge requests of the model, as decimal text.
IidTexts == {<<"6", "0">>, <<"7">>, <<"1", "2", "3">>}

\* The same ids as the JSON numbers of a merge request.
IidNumber ==
    (<<"6", "0">> :> I64(<<6, 0>>)) @@ (<<"7">> :> I64(<<7>>))
    @@ (<<"1", "2", "3">> :> I64(<<1, 2, 3>>))

GitlabDomains == {"gitlab.com", "gitlab.example.org"}

GitlabPath == "jordilin/gitlapi"

\* The bodies of the responses to the POST, as the JSON values they parse
\* to: the created merge request, the conflict, an error message.
CreatedBody(domain, iid) ==
    [iid |-> IidNumber[iid], web_url |-> MergeRequestUrl(domain, GitlabPath, iid)]

ConflictBody(iid) == [message |-> <<ConflictMessage(iid)>>]

ErrorBody == [error |-> "error"]

OpenStatuses == {200, 201, 400, 409, 422, 500}

OpenResponses(domain) ==
    {Response_with_body(Response_with_status(Response_new(0), 201), CreatedBody(domain, iid)) :
        iid \in IidTexts}
    \cup {Response_with_body(Response_with_status(Response_new(0), 409), ConflictBody(iid)) :
             iid \in IidTexts}
    \cup {Response_with_body(Response_with_status(Response_new(0), st), ErrorBody) :
             st \in OpenStatuses \ {201, 409}}

\* What the runner gives: a response, or a failure of the transport.
Answers(responses) ==
    {[ok |-> TRUE, response |-> r] : r \in responses}
    \cup {[ok |-> FALSE, response |-> Response_new(0)]}

\* query::gitlab_merge_request_response: the response of the request,
\* whatever its status.
gitlab_merge_request_response(answer) == answer

\* The status is compared with 201 before it is compared with 409.
Gitlab_open_created_checked_first(g, answer) ==
    LET r == gitlab_merge_request_response(answer)
    IN  IF ~r.ok THEN ErrMR
        ELSE IF r.response.status # 201 THEN ErrMR
        ELSE OkMR(r.response.body.iid, r.response.body.web_url)

\* Gitlab, MergeRequest::open, after the request is built.
Gitlab_open(g, answer) ==
    LET r == gitlab_merge_request_response(answer)
    IN  IF ~r.ok THEN ErrMR
        ELSE IF r.response.status = 409
        THEN LET word == split_whitespace_last(r.response.body.message[1])
             IN  IF ~word.some THEN PanicMR
                 ELSE LET merge_request_iid == trim_matches(word.val, "!")
                          id == parse_i64(merge_request_iid)
                      IN  IF ~id.ok THEN PanicMR
                          ELSE OkMR(id, MergeRequestUrl(g.domain, g.path, merge_request_iid))
        ELSE IF r.response.status # 201 THEN ErrMR
        ELSE OkMR(r.response.body.iid, r.response.body.web_url)

Gitlab_new(domain, path) == [domain |-> domain, path |-> path]

\* A call of open on a Gitlab remote.
GitlabOpen ==
    /\ call = NoCall
    /\ \E d \in GitlabDomains :
       \E answer \in Answers(OpenResponses(d)) :
          call' = [op |-> "open",
                   input |-> [remote |-> Gitlab_new(d, GitlabPath), answer |-> answer],
                   requests |-> <<[method |-> "POST",
                                   url |-> <<"rest_api_basepath", "/merge_requests">>]>>,
                   result |-> Gitlab_open(Gitlab_new(d, GitlabPath), answer)]
    /\ UNCHANGED <<link, ph, pages, calls>>
    /\ UNCHANGED execVars
    /\ UNCHANGED respVars

(***************************************************************************)
(* Github, RemoteProject::get_project_data (src/github.rs)                  *)
(***************************************************************************)
Github_new(domain, path) ==
    [domain |-> domain, path |-> path, rest_api_basepath |-> <<"https://api.", domain>>]

GithubDomains == {"github.com", "github.example.org"}

GithubPaths == {"jordilin/githapi", "jordilin/gitar"}

NoId == [some |-> FALSE, id |-> 0]

SomeId(id) == [some |-> TRUE, id |-> id]

ProjectIds == {NoId, SomeId(1), SomeId(2)}

\* The projects the remote knows, and what it answers to the request.
Projects == {[id |-> 1, default_branch |-> "main"], [id |-> 2, default_branch |-> "develop"]}

NoProject == [id |-> 0, default_branch |-> ""]

ProjectAnswers ==
    {[status |-> 200, project |-> p] : p \in Projects}
    \cup {[status |-> 404, project |-> NoProject]}

\* query::github_project_data: one request to url, its response turned into
\* a Project, or an error.
github_project_data(url, method, answer) ==
    [requests |-> <<[method |-> method, url |-> url]>>,
     ok |-> answer.status \in OkStatuses,
     project |-> answer.project]

NoInfo == [tag |-> "none", project |-> NoProject]

OperationNotSupported ==
    [requests |-> <<>>,
     result |-> [kind |-> "err", err |-> "OperationNotSupported", info |-> NoInfo]]

\* The request is made before the id is looked at.
Github_get_project_data_asks_first(g, id, answer) ==
    LET q == github_project_data(g.rest_api_basepath \o <<"/repos/", g.path>>, "GET", answer)
    IN  IF id.some THEN [OperationNotSupported EXCEPT !.requests = q.requests]
        ELSE [requests |-> q.requests,
              result |-> IF q.ok
                         THEN [kind |-> "ok", err |-> "none",
                               info |-> [tag |-> "Project", project |-> q.project]]
                         ELSE [kind |-> "err", err |-> "remote", info |-> NoInfo]]

\* Github, RemoteProject::get_project_data: the requests made and the
\* result.
Github_get_project_data(g, id, answer) ==
    IF id.some THEN OperationNotSupported
    ELSE LET url == g.rest_api_basepath \o <<"/repos/", g.path>>
             q == github_project_data(url, "GET", answer)
         IN  [requests |-> q.requests,
              result |-> IF q.ok
                         THEN [kind |-> "ok", err |-> "none",
                               info |-> [tag |-> "Project", project |-> q.project]]
                         ELSE [kind |-> "err", err |-> "remote", info |-> NoInfo]]

\* A call of get_project_data on a Github remote.
GithubGetProjectData ==
    /\ call = NoCall
    /\ \E d \in GithubDomains, p \in GithubPaths, id \in ProjectIds, answer \in ProjectAnswers :
          LET out == Github_get_project_data(Github_new(d, p), id, answer)
          IN  call' = [op |-> "get_project_data",
                       input |-> [remote |-> Github_new(d, p), id |-> id, answer |-> answer],
                       requests |-> out.requests,
                       result |-> out.result]
    /\ UNCHANGED <<link, ph, pages, calls>>
    /\ UNCHANGED execVars
    /\ UNCHANGED respVars

(***************************************************************************)
(* open, the merge request workflow (src/merge_request.rs)                  *)
(*                                                                          *)
(* call holds the workflow under way: its arguments (input), the step it is *)
(* at (pc), the steps taken so far with how each went (requests), the       *)
(* MergeRequestArgs once built (args), the outgoing commits once read       *)
(* (outgoing_commits) and what open returned (result).                      *)
(* git, dialog, the remote and the browser are collaborators: each answers  *)
(* when its step is taken.                                                  *)
(***************************************************************************)
NoneS == [some |-> FALSE, val |-> ""]

SomeS(s) == [some |-> TRUE, val |-> s]

Running == [kind |-> "running", err |-> "none"]

\* An error a collaborator returned, passed on by `?`.
ErrOf(who) == [kind |-> "err", err |-> who]

\* i64::to_string of a member id.
to_string(n) ==
    [k \in 1..Len(NumOf(n)) |->
        <<"0", "1", "2", "3", "4", "5", "6", "7", "8", "9">>[NumOf(n)[k] + 1]]

\* build_description: the description with the signature of the
\* configuration appended, as the pieces of the text.
build_description(description, signature) ==
    IF description = "" /\ signature = "" THEN <<>>
    ELSE IF description = "" THEN <<signature>>
    ELSE IF signature = "" THEN <<description>>
    ELSE <<description, "\n\n", signature>>

NoArgs ==
    [title |-> "", description |-> <<>>, source_branch |-> "", target_branch |-> "",
     assignee_id |-> <<>>, username |-> ""]

OkArgs(a) == [kind |-> "ok", err |-> "none", args |-> a]

ErrArgs(e) == [kind |-> "err", err |-> e, args |-> NoArgs]

\* dialog::MergeRequestUserInput::new
MergeRequestUserInput_new(title, description, user_id, username) ==
    [title |-> title, description |-> description, user_id |-> user_id,
     username |-> username]

\* With noprompt the first member of the preferred name is taken when there
\* are several.
user_prompt_confirmation_takes_first(mr_body, config, description, target_branch, noprompt, answer, built) ==
    LET preferred_assignee_members ==
            SelectSeq(mr_body.members,
                      LAMBDA member : member.username = config.preferred_assignee_username)
    IN  IF noprompt /\ Len(preferred_assignee_members) = 0
        THEN ErrArgs("PreconditionNotMet")
        ELSE IF ~noprompt /\ ~answer.ok THEN ErrArgs("dialog")
        ELSE LET user_input ==
                     IF noprompt
                     THEN MergeRequestUserInput_new(mr_body.repo.title, description,
                              preferred_assignee_members[1].id,
                              preferred_assignee_members[1].username)
                     ELSE answer.user_input
             IN  IF ~built THEN ErrArgs("MergeRequestArgsBuilder")
                 ELSE OkArgs([title |-> mr_body.repo.title,
                              description |-> description,
                              source_branch |-> mr_body.repo.branch,
                              target_branch |-> target_branch,
                              assignee_id |-> to_string(user_input.user_id),
                              username |-> user_input.username])

\* user_prompt_confirmation. answer is what the dialog returns when it is
\* asked; built tells whether MergeRequestArgsBuilder::build() returns Ok.
user_prompt_confirmation(mr_body, config, description, target_branch, noprompt, answer, built) ==
    LET preferred_assignee_members ==
            SelectSeq(mr_body.members,
                      LAMBDA member : member.username = config.preferred_assignee_username)
    IN  IF noprompt /\ Len(preferred_assignee_members) # 1
        THEN ErrArgs("PreconditionNotMet")
        ELSE IF ~noprompt /\ ~answer.ok THEN ErrArgs("dialog")
        ELSE LET user_input ==
                     IF noprompt
                     THEN MergeRequestUserInput_new(mr_body.repo.title, description,
                              preferred_assignee_members[1].id,
                              preferred_assignee_members[1].username)
                     ELSE answer.user_input
             IN  IF ~built THEN ErrArgs("MergeRequestArgsBuilder")
                 ELSE OkArgs([title |-> mr_body.repo.title,
                              description |-> description,
                              source_branch |-> mr_body.repo.branch,
                              target_branch |-> target_branch,
                              assignee_id |-> to_string(user_input.user_id),
                              username |-> user_input.username])

\* The remote is asked to open the merge request before the branch is
\* pushed.
step_after_opens_before_push(step, open_browser) ==
    CASE step = "in_feature_branch" -> "confirm"
      [] step = "confirm" -> "rebase"
      [] step = "rebase" -> "outgoing_commits"
      [] step = "outgoing_commits" -> "summary"
      [] step = "summary" -> "remote_open"
      [] step = "remote_open" -> "push"
      [] step = "push" -> IF open_browser THEN "browser" ELSE "done"
      [] step = "browser" -> "done"

\* The statement of open that follows a step that went well.
step_after(step, open_browser) ==
    CASE step = "in_feature_branch" -> "confirm"
      [] step = "confirm" -> "rebase"
      [] step = "rebase" -> "outgoing_commits"
      [] step = "outgoing_commits" -> "summary"
      [] step = "summary" -> "push"
      [] step = "push" -> "remote_open"
      [] step = "remote_open" -> IF open_browser THEN "browser" ELSE "done"
      [] step = "browser" -> "done"

\* The outgoing commits are not looked at.
outgoing_commits_check_skipped(outgoing_commits) == OkUnit

\* if outgoing_commits.is_empty() { return Err(PreconditionNotMet) }
outgoing_commits_check(outgoing_commits) ==
    IF outgoing_commits = "" THEN PreconditionNotMet ELSE OkUnit

\* ---- the arguments of open ----
SourceBranches == {"feature", "main", "master", "develop"}

TargetBranches == {NoneS, SomeS("develop")}

DefaultBranches == {"main", "feature"}

MemberPool ==
    {[id |-> 1, username |-> "alice"], [id |-> 2, username |-> "bob"],
     [id |-> 13, username |-> "alice"]}

MemberLists == UNION {[1..n -> MemberPool] : n \in 0..MaxMembers}

PreferredAssignees == {"alice", "bob"}

OpenInputs ==
    [mr_body : [repo : [branch : SourceBranches, title : {"title"},
                        last_commit_message : {"message"}],
                project : [default_branch : DefaultBranches],
                members : MemberLists],
     config : [preferred_assignee_username : PreferredAssignees,
               merge_request_description_signature : {"signature"}],
     target_branch : TargetBranches,
     noprompt : BOOLEAN,
     open_browser : BOOLEAN]

\* What dialog::prompt_user_merge_request_info may return: an error, or the
\* user's input with one of the members as the assignee.
DialogAnswers(members) ==
    {[ok |-> FALSE, user_input |-> MergeRequestUserInput_new("", <<>>, 0, "")]}
    \cup {[ok |-> TRUE,
           user_input |-> MergeRequestUserInput_new("title", <<>>, members[i].id,
                                                    members[i].username)] :
             i \in 1..Len(members)}

\* let source_branch, let target_branch, let description
source_branch_of(input) == input.mr_body.repo.branch

target_branch_of(input) ==
    IF input.target_branch.some THEN input.target_branch.val
    ELSE input.mr_body.project.default_branch

description_of(input) ==
    build_description(input.mr_body.repo.last_commit_message,
                      input.config.merge_request_description_signature)

\* open is called.
OpenCalled(input) ==
    [op |-> "open", input |-> input, pc |-> "in_feature_branch", requests |-> <<>>,
     args |-> NoArgs, outgoing_commits |-> NoneS, result |-> Running]

\* The step at pc was taken and went as r: open goes on when r is Ok and
\* returns r when it is an error.
Stepped(r) ==
    [call EXCEPT !.requests = Append(@, [step |-> call.pc, ok |-> r.kind = "ok"]),
                 !.pc = IF r.kind = "ok" THEN step_after(call.pc, call.input.open_browser)
                        ELSE "done",
                 !.result = IF r.kind # "ok" THEN r
                            ELSE IF step_after(call.pc, call.input.open_browser) = "done"
                            THEN OkUnit
                            ELSE Running]

AtStep(step) == call.op = "open" /\ call.pc = step

OpenFrame ==
    /\ UNCHANGED <<link, ph, pages, calls>>
    /\ UNCHANGED execVars
    /\ UNCHANGED respVars

\* in_feature_branch(source_branch, target_branch)?
OpenInFeatureBranch ==
    /\ AtStep("in_feature_branch")
    /\ call' = Stepped(in_feature_branch(source_branch_of(call.input),
                                         target_branch_of(call.input)))
    /\ OpenFrame

\* let args = user_prompt_confirmation(...)?
OpenConfirm ==
    /\ AtStep("confirm")
    /\ \E answer \in DialogAnswers(call.input.mr_body.members), built \in BOOLEAN :
          LET r == user_prompt_confirmation(call.input.mr_body, call.input.config,
                       description_of(call.input), target_branch_of(call.input),
                       call.input.noprompt, answer, built)
          IN  call' = [Stepped([kind |-> r.kind, err |-> r.err]) EXCEPT !.args = r.args]
    /\ OpenFrame

\* git::rebase(&Shell, "origin", target_branch)?
OpenRebase ==
    /\ AtStep("rebase")
    /\ \E r \in {OkUnit, ErrOf("git::rebase")} : call' = Stepped(r)
    /\ OpenFrame

\* let outgoing_commits = git::outgoing_commits(...)?, and the check of it
OpenOutgoingCommits ==
    /\ AtStep("outgoing_commits")
    /\ \/ call' = Stepped(ErrOf("git::outgoing_commits"))
       \/ \E outgoing_commits \in {"", "commits"} :
             call' = [Stepped(outgoing_commits_check(outgoing_commits))
                         EXCEPT !.outgoing_commits = SomeS(outgoing_commits)]
    /\ OpenFrame

\* if let Ok(()) = dialog::show_summary_merge_request(...): when it is not
\* Ok(()) open skips the block and returns Ok(()).
OpenSummary ==
    /\ AtStep("summary")
    /\ \/ call' = Stepped(OkUnit)
       \/ call' = [call EXCEPT !.requests = Append(@, [step |-> "summary", ok |-> FALSE]),
                               !.pc = "done",
                               !.result = OkUnit]
    /\ OpenFrame

\* git::push(&Shell, "origin", &mr_body.repo)?
OpenPush ==
    /\ AtStep("push")
    /\ \E r \in {OkUnit, ErrOf("git::push")} : call' = Stepped(r)
    /\ OpenFrame

\* let merge_request_response = remote.open(args)?
OpenRemote ==
    /\ AtStep("remote_open")
    /\ \E r \in {OkUnit, ErrOf("remote.open")} : call' = Stepped(r)
    /\ OpenFrame

\* if open_browser { open::that(merge_request_response.web_url)? }
OpenBrowser ==
    /\ AtStep("browser")
    /\ \E r \in {OkUnit, ErrOf("open::that")} : call' = Stepped(r)
    /\ OpenFrame

(***************************************************************************)
(* The specifications                                                       *)
(***************************************************************************)
\* The executor and the fold at rest.
ExecIdle ==
    /\ cmds = <<>>
    /\ nstarted = 0
    /\ worker = <<>>
    /\ results = <<>>
    /\ firstDone = 0
    /\ lastDone = 0
    /\ lateDone = FALSE
    /\ foldIdx = 1
    /\ acc = AccInit
    /\ ret = NotReturned

\* No link header parsed, no page count asked, no accessor and no remote
\* operation called.
CallsIdle ==
    /\ link = <<>>
    /\ ph = NotParsed
    /\ pages = NoPagesCall
    /\ calls = <<>>
    /\ call = NoCall

Init ==
    /\ cmds \in Batches
    /\ nstarted = 0
    /\ worker = [i \in 1..Len(cmds) |-> "submitted"]
    /\ results = [i \in 1..Len(cmds) |-> NoResult]
    /\ firstDone = 0
    /\ lastDone = 0
    /\ lateDone = FALSE
    /\ foldIdx = 1
    /\ acc = AccInit
    /\ ret = NotReturned
    /\ now = 0
    /\ resp = Response_new(0)
    /\ rl = NotCalled
    /\ CallsIdle

Next ==
    \/ Spawn
    \/ \E i \in 1..N : Complete(i)
    \/ FoldStep
    \/ FoldFinish

Spec == Init /\ [][Next]_vars

\* Every started worker is scheduled until its command completes, and the
\* executor starts every command of the batch.
FairSpec ==
    /\ Spec
    /\ WF_vars(Spawn)
    /\ \A i \in 1..MaxBatch : WF_vars(i <= N /\ Complete(i))

InitRL ==
    /\ cmds = <<>>
    /\ nstarted = 0
    /\ worker = <<>>
    /\ results = <<>>
    /\ firstDone = 0
    /\ lastDone = 0
    /\ lateDone = FALSE
    /\ foldIdx = 1
    /\ acc = AccInit
    /\ ret = NotReturned
    /\ now \in Nows
    /\ resp = Response_new(now)
    /\ rl = NotCalled
    /\ CallsIdle

NextRL ==
    \/ WithHeaders
    \/ GetRatelimitHeaders

SpecRL == InitRL /\ [][NextRL]_vars

InitLink ==
    /\ ExecIdle
    /\ now = 0
    /\ resp = Response_new(0)
    /\ rl = NotCalled
    /\ link \in Links
    /\ ph = NotParsed
    /\ pages = NoPagesCall
    /\ calls = <<>>
    /\ call = NoCall

NextLink == ParseLinkHeaders

SpecLink == InitLink /\ [][NextLink]_vars

InitPages ==
    /\ ExecIdle
    /\ now = 0
    /\ rl = NotCalled
    /\ link \in Links
    /\ resp \in PageResponses(link)
    /\ (~resp.headers.some \/ LINK_HEADER \notin DOMAIN resp.headers.map) => link = <<>>
    /\ ph = NotParsed
    /\ pages \in {NotAsked(c) : c \in Callers}
    /\ calls = <<>>
    /\ call = NoCall

NextPages == NumPages

SpecPages == InitPages /\ [][NextPages]_vars

InitAcc ==
    /\ ExecIdle
    /\ now \in Nows
    /\ resp \in AccResponses(now)
    /\ rl = NotCalled
    /\ CallsIdle

NextAcc ==
    \/ CallGetEtag
    \/ CallGetPageHeaders
    \/ CallGetRatelimitHeaders
    \/ CallHeader
    \/ CallStatus
    \/ Tick

SpecAcc == InitAcc /\ [][NextAcc]_vars

InitOps ==
    /\ ExecIdle
    /\ now = 0
    /\ resp = Response_new(0)
    /\ rl = NotCalled
    /\ CallsIdle

NextOps ==
    \/ InFeatureBranch
    \/ GitlabOpen
    \/ GithubGetProjectData

SpecOps == InitOps /\ [][NextOps]_vars

(***************************************************************************)
(* get_repo_project_info on the results of any batch                        *)
(***************************************************************************)
\* A command of any kind: it succeeds with one of the CmdInfo tags, or fails.
AnyCommands ==
    [tag : CmdInfo \ {"StatusModified"}, ok : {TRUE}, flag : {FALSE}]
    \cup [tag : {"StatusModified"}, ok : {TRUE}, flag : {TRUE}]
    \cup [tag : {""}, ok : {FALSE}, flag : {FALSE}]

AnyBatches == UNION {[1..n -> AnyCommands] : n \in 0..MaxFold}

\* exec::parallel_stream has returned the results of the batch and the for
\* loop is about to take the first one.
InitFold ==
    /\ cmds \in AnyBatches
    /\ nstarted = Len(cmds)
    /\ worker = [i \in 1..Len(cmds) |-> "done"]
    /\ results = [i \in 1..Len(cmds) |-> Outcome(cmds, i)]
    /\ firstDone = IF Len(cmds) = 0 THEN 0 ELSE 1
    /\ lastDone = Len(cmds)
    /\ lateDone = FALSE
    /\ foldIdx = 1
    /\ acc = AccInit
    /\ ret = NotReturned
    /\ now = 0
    /\ resp = Response_new(0)
    /\ rl = NotCalled
    /\ CallsIdle

NextFold ==
    \/ FoldStep
    \/ FoldFinish

SpecFold == InitFold /\ [][NextFold]_vars

InitProc ==
    /\ ExecIdle
    /\ now = 0
    /\ rl = NotCalled
    /\ link \in ProcLinks
    /\ resp \in ProcResponses(link)
    /\ (~resp.headers.some \/ LINK_HEADER \notin DOMAIN resp.headers.map) => link = <<>>
    /\ ph = NotParsed
    /\ pages = NoPagesCall
    /\ calls = <<>>
    /\ call = NoCall

NextProc ==
    \/ WithHeaderProcessor
    \/ CallGetPageHeaders

SpecProc == InitProc /\ [][NextProc]_vars

InitForms ==
    /\ ExecIdle
    /\ now = 0
    /\ resp = Response_new(0)
    /\ rl = NotCalled
    /\ link \in FormLinks
    /\ ph = NotParsed
    /\ pages = NoPagesCall
    /\ calls = <<>>
    /\ call = NoCall

NextForms == ParseLinkHeaders

SpecForms == InitForms /\ [][NextForms]_vars

InitNames ==
    /\ ExecIdle
    /\ now = 0
    /\ resp \in EtagResponses
    /\ rl = NotCalled
    /\ CallsIdle

NextNames ==
    \/ CallHeaderNamed
    \/ CallGetEtag

SpecNames == InitNames /\ [][NextNames]_vars

InitOpen ==
    /\ ExecIdle
    /\ now = 0
    /\ resp = Response_new(0)
    /\ rl = NotCalled
    /\ link = <<>>
    /\ ph = NotParsed
    /\ pages = NoPagesCall
    /\ calls = <<>>
    /\ call \in {OpenCalled(input) : input \in OpenInputs}

NextOpen ==
    \/ OpenInFeatureBranch
    \/ OpenConfirm
    \/ OpenRebase
    \/ OpenOutgoingCommits
    \/ OpenSummary
    \/ OpenPush
    \/ OpenRemote
    \/ OpenBrowser

SpecOpen == InitOpen /\ [][NextOpen]_vars

(***************************************************************************)
(* Claims about the executor and the fold                                   *)
(***************************************************************************)
AllDone == \A i \in 1..N : worker[i] = "done"

Failing == {i \in 1..N : ~cmds[i].ok}

AllOk == Failing = {}

MinOf(S) == CHOOSE m \in S : \A k \in S : m <= k

MaxOf(S) == CHOOSE m \in S : \A k \in S : m >= k

\* Command i is the only one of the batch that carries its tag.
UniqueTag(i) == \A j \in 1..N : cmds[j].tag = cmds[i].tag => j = i

\* The field of the composite a tagged value belongs to holds that value.
FieldHolds(body, r) ==
    CASE r.tag = "Project" -> body.project = r.val
      [] r.tag = "Members" -> body.members = r.val
      [] r.tag = "StatusModified" -> body.repo.status = r.flag
      [] r.tag = "Branch" -> body.repo.branch = r.val
      [] r.tag = "LastCommitSummary" -> body.repo.title = r.val
      [] r.tag = "LastCommitMessage" -> body.repo.last_commit_message = r.val
      [] OTHER -> TRUE

\* C1: the result collection has one slot per submitted command; the slot of
\* a completed command i holds the outcome of command i (a success or a
\* failure, never both), whatever the order of completion, and the slot of
\* a command that has not completed is empty.
C1_SlotPerCommandInSubmissionOrder ==
    /\ DOMAIN results = 1..N
    /\ \A i \in 1..N :
          /\ worker[i] = "done" =>
                /\ results[i] = Outcome(cmds, i)
                /\ (results[i].kind = "ok") # (results[i].kind = "err")
          /\ worker[i] # "done" => results[i] = NoResult

\* C1: every command completed, the last one first and the first one last,
\* with a success and a failure among the slots.
C1_Witness ==
    /\ N >= 2
    /\ AllDone
    /\ firstDone = N
    /\ lastDone = 1
    /\ \E i, j \in 1..N : results[i].kind = "ok" /\ results[j].kind = "err"

\* C2: when a command of the batch fails, get_repo_project_info returns a
\* failure and no composite, and the failure is that of the failing command
\* with the smallest submission index.
C2_FirstFailureBySubmissionIndex ==
    (ret.kind # "pending" /\ Failing # {}) =>
        /\ ret.kind = "err"
        /\ ret.err = MinOf(Failing)
        /\ ret.body = AccInit

\* C2: two commands fail, the later one failed first in time, and the fold
\* returned the earlier one's failure.
C2_Witness ==
    /\ Cardinality(Failing) >= 2
    /\ firstDone = MaxOf(Failing)
    /\ ret.kind = "err"
    /\ ret.err = MinOf(Failing)
    /\ ret.err < firstDone

\* C3: when every command succeeds, get_repo_project_info returns a
\* composite in which the field of each tag equals the value produced by
\* the command carrying that tag, whatever the order of completion.
C3_CompositeHoldsEachContribution ==
    (AllOk /\ ret.kind # "pending") =>
        /\ ret.kind = "ok"
        /\ \A i \in 1..N : UniqueTag(i) => FieldHolds(ret.body, Outcome(cmds, i))

\* C3: a full batch of distinct consumed tags whose first command finished
\* last and whose last command finished first, folded to a composite.
C3_Witness ==
    /\ N = MaxBatch
    /\ AllOk
    /\ \A i \in 1..N : UniqueTag(i) /\ cmds[i].tag \in ConsumedTags
    /\ firstDone = N
    /\ lastDone = 1
    /\ ret.kind = "ok"

\* C4: every command of a submitted batch is started and runs to its
\* completion, also when a sibling fails and when the fold has already
\* returned a failure: eventually all commands are done, for good.
C4_AllCommandsRunToCompletion == <>[]AllDone

\* C4: the fold returned a failure while a command was still running, and
\* that command completed afterwards.
C4_Witness ==
    /\ ret.kind = "err"
    /\ lateDone
    /\ AllDone
    /\ lastDone # ret.err

Perms == {p \in [1..N -> 1..N] : \A i, j \in 1..N : p[i] = p[j] => i = j}

\* The results of the batch declared in the order p.
PermutedResults(p) == [k \in 1..N |-> Outcome(cmds, p[k])]

\* No two commands of the batch carry the same consumed tag.
OneCommandPerConsumedTag ==
    \A i \in 1..N : cmds[i].tag \in ConsumedTags => UniqueTag(i)

\* C5: for a batch whose commands all succeed and in which each consumed tag
\* is produced by one command, the composite returned is the one every
\* permutation of the batch folds to.
C5_DeclarationOrderIrrelevant ==
    (ret.kind = "ok" /\ OneCommandPerConsumedTag) =>
        \A p \in Perms : fold_from(PermutedResults(p), 1, AccInit) = ret

\* C5: a full batch with the branch declared after the title and the
\* message, folded to a composite.
C5_Witness ==
    /\ N = MaxBatch
    /\ ret.kind = "ok"
    /\ OneCommandPerConsumedTag
    /\ \E i, j \in 1..N :
          i < j /\ cmds[i].tag = "LastCommitSummary" /\ cmds[j].tag = "Branch"
    /\ ret.body.repo.title # ret.body.repo.branch

(***************************************************************************)
(* Claims about get_ratelimit_headers                                       *)
(***************************************************************************)
HeaderMap == resp.headers.map

Has(k) == resp.headers.some /\ k \in DOMAIN HeaderMap

\* The numbers the decimal header values of the model denote, written out.
DecimalU32 ==
    (V_30 :> <<3, 0>>) @@ (V_0 :> <<0>>)
    @@ (V_reset :> <<1, 6, 5, 8, 6, 0, 2, 2, 7, 0>>)

DecimalU64 ==
    DecimalU32 @@ (V_u32_over :> <<4, 2, 9, 4, 9, 6, 7, 2, 9, 6>>)

\* No vendor family: neither "remaining" key is in the header map.
NoFamily == ~Has(GITHUB_RATELIMIT_REMAINING) /\ ~Has(GITLAB_RATELIMIT_REMAINING)

\* C6: decimal numbers r (a u32) and t (a u64) under x-ratelimit-remaining
\* and x-ratelimit-reset are reported as remaining = r, reset = t, and the
\* same values under ratelimit-remaining and ratelimit-reset give the same
\* report.
C6_BothFamiliesReportTheHeaderValues ==
    rl.called =>
        /\ ( /\ Has(GITHUB_RATELIMIT_REMAINING)
             /\ Has(GITHUB_RATELIMIT_RESET)
             /\ HeaderMap[GITHUB_RATELIMIT_REMAINING] \in DOMAIN DecimalU32
             /\ HeaderMap[GITHUB_RATELIMIT_RESET] \in DOMAIN DecimalU64 )
           => rl.out = [some |-> TRUE,
                        remaining |-> DecimalU32[HeaderMap[GITHUB_RATELIMIT_REMAINING]],
                        reset |-> DecimalU64[HeaderMap[GITHUB_RATELIMIT_RESET]]]
        /\ ( /\ ~Has(GITHUB_RATELIMIT_REMAINING)
             /\ Has(GITLAB_RATELIMIT_REMAINING)
             /\ Has(GITLAB_RATELIMIT_RESET)
             /\ HeaderMap[GITLAB_RATELIMIT_REMAINING] \in DOMAIN DecimalU32
             /\ HeaderMap[GITLAB_RATELIMIT_RESET] \in DOMAIN DecimalU64 )
           => rl.out = [some |-> TRUE,
                        remaining |-> DecimalU32[HeaderMap[GITLAB_RATELIMIT_REMAINING]],
                        reset |-> DecimalU64[HeaderMap[GITLAB_RATELIMIT_RESET]]]

\* C6: ratelimit-remaining = 30 and ratelimit-reset = 1658602270 (and an
\* x-ratelimit-reset of another value) were reported as 30 and 1658602270.
C6_Witness ==
    /\ rl.called
    /\ resp.headers.some
    /\ DOMAIN HeaderMap =
          {GITLAB_RATELIMIT_REMAINING, GITLAB_RATELIMIT_RESET, GITHUB_RATELIMIT_RESET}
    /\ HeaderMap[GITLAB_RATELIMIT_REMAINING] = V_30
    /\ HeaderMap[GITLAB_RATELIMIT_RESET] = V_reset
    /\ HeaderMap[GITHUB_RATELIMIT_RESET] = V_0
    /\ rl.out = [some |-> TRUE, remaining |-> <<3, 0>>,
                 reset |-> <<1, 6, 5, 8, 6, 0, 2, 2, 7, 0>>]

\* C7: when the header map holds rate-limit values only under keys whose
\* casing differs from the recognised lower-case keys, no rate-limit
\* information is reported.
C7_NoCaseInsensitiveMatch ==
    ( /\ rl.called
      /\ resp.headers.some
      /\ DOMAIN HeaderMap \cap RateLimitKeys = {}
      /\ DOMAIN HeaderMap \cap CamelCaseKeys # {} )
    => rl.out = NoneRL

\* C7: the headers of test_get_rate_limit_headers_camelcase_gitlab, queried.
C7_Witness ==
    /\ rl.called
    /\ resp.headers.some
    /\ DOMAIN HeaderMap = CamelCaseKeys
    /\ HeaderMap["RateLimit-remaining"] = V_30
    /\ ~rl.out.some

\* C8: when neither "remaining" key is a key of the headers (no header map,
\* or only "reset" keys), None is reported; a "remaining" header of 0 is
\* reported as Some with remaining 0, a different outcome.
C8_AbsentIsNoneNotZero ==
    rl.called =>
        /\ NoFamily => (rl.out = NoneRL /\ ~rl.out.some)
        /\ (Has(GITHUB_RATELIMIT_REMAINING) /\ HeaderMap[GITHUB_RATELIMIT_REMAINING] = V_0)
           => (rl.out.some /\ rl.out.remaining = <<0>>)

\* C8: a header map with both "reset" keys and no "remaining" key, queried.
C8_Witness ==
    /\ rl.called
    /\ resp.headers.some
    /\ DOMAIN HeaderMap = {GITHUB_RATELIMIT_RESET, GITLAB_RATELIMIT_RESET}
    /\ HeaderMap[GITHUB_RATELIMIT_RESET] = V_reset
    /\ rl.out = NoneRL

\* C9, as claimed: when no vendor family is present the signal obtained is
\* the default RateLimitHeader, remaining = 80 and reset = construction
\* time + 60 seconds.
C9_DefaultHeaderWhenAbsent ==
    (rl.called /\ NoFamily) =>
        rl.out = [some |-> TRUE, remaining |-> <<8, 0>>, reset |-> NumOf(now + 60)]

\* C9, amended: when no vendor family is present get_ratelimit_headers
\* reports no RateLimitHeader (None, not an error); the defaults 80 and
\* construction time + 60 seconds are kept in the Response.
C9_NoneWhenAbsentDefaultsInResponse ==
    (rl.called /\ NoFamily) =>
        /\ rl.out = NoneRL
        /\ resp.remaining_requests = 80
        /\ resp.time_to_ratelimit_reset = now + 60

\* C9: a Response without a header map, queried.
C9_Witness ==
    /\ rl.called
    /\ ~resp.headers.some
    /\ ~rl.out.some
    /\ resp.remaining_requests = 80
    /\ resp.time_to_ratelimit_reset = now + 60

\* C10, as claimed: when a family's "remaining" key is present and its
\* "reset" key is absent, the report holds the parsed remaining value and
\* the Response's default reset horizon (construction time + 60 seconds).
C10_MissingResetIsDefaultHorizon ==
    rl.called =>
        /\ (Has(GITHUB_RATELIMIT_REMAINING) /\ ~Has(GITHUB_RATELIMIT_RESET))
           => /\ rl.out.some
              /\ rl.out.reset = NumOf(now + 60)
              /\ HeaderMap[GITHUB_RATELIMIT_REMAINING] \in DOMAIN DecimalU32
                 => rl.out.remaining = DecimalU32[HeaderMap[GITHUB_RATELIMIT_REMAINING]]
        /\ ( /\ ~Has(GITHUB_RATELIMIT_REMAINING)
             /\ Has(GITLAB_RATELIMIT_REMAINING)
             /\ ~Has(GITLAB_RATELIMIT_RESET) )
           => /\ rl.out.some
              /\ rl.out.reset = NumOf(now + 60)
              /\ HeaderMap[GITLAB_RATELIMIT_REMAINING] \in DOMAIN DecimalU32
                 => rl.out.remaining = DecimalU32[HeaderMap[GITLAB_RATELIMIT_REMAINING]]

\* The "remaining" key of the family get_ratelimit_headers reports, and its
\* paired "reset" key.
SelectedRemaining ==
    IF Has(GITHUB_RATELIMIT_REMAINING) THEN GITHUB_RATELIMIT_REMAINING
    ELSE GITLAB_RATELIMIT_REMAINING

SelectedReset ==
    IF Has(GITHUB_RATELIMIT_REMAINING) THEN GITHUB_RATELIMIT_RESET
    ELSE GITLAB_RATELIMIT_RESET

\* The header values of the model that are no u32, and no u64, written out.
UnparsableU32 == {V_minus1, V_empty, V_u32_over, V_u64_over}

UnparsableU64 == {V_minus1, V_empty, V_u64_over}

\* C11: a present "remaining" value that is no unsigned number is reported
\* as remaining = 80, a present "reset" value that is no unsigned number is
\* reported as reset = construction time + 60 seconds, the call reports a
\* RateLimitHeader in both cases, and the fallback of one field leaves the
\* parsed value of the other field in place.
C11_ParseFailuresFallBackIndependently ==
    (rl.called /\ ~NoFamily) =>
        /\ HeaderMap[SelectedRemaining] \in UnparsableU32
           => (rl.out.some /\ rl.out.remaining = <<8, 0>>)
        /\ (Has(SelectedReset) /\ HeaderMap[SelectedReset] \in UnparsableU64)
           => (rl.out.some /\ rl.out.reset = NumOf(now + 60))
        /\ ( /\ HeaderMap[SelectedRemaining] \in UnparsableU32
             /\ Has(SelectedReset)
             /\ HeaderMap[SelectedReset] \in DOMAIN DecimalU64 )
           => rl.out.reset = DecimalU64[HeaderMap[SelectedReset]]
        /\ ( /\ HeaderMap[SelectedRemaining] \in DOMAIN DecimalU32
             /\ Has(SelectedReset)
             /\ HeaderMap[SelectedReset] \in UnparsableU64 )
           => rl.out.remaining = DecimalU32[HeaderMap[SelectedRemaining]]

\* C11: x-ratelimit-remaining = "-1" with x-ratelimit-reset = 1658602270,
\* reported as remaining 80 and reset 1658602270.
C11_Witness ==
    /\ rl.called
    /\ Has(GITHUB_RATELIMIT_REMAINING)
    /\ Has(GITHUB_RATELIMIT_RESET)
    /\ HeaderMap[GITHUB_RATELIMIT_REMAINING] = V_minus1
    /\ HeaderMap[GITHUB_RATELIMIT_RESET] = V_reset
    /\ rl.out = [some |-> TRUE, remaining |-> <<8, 0>>,
                 reset |-> <<1, 6, 5, 8, 6, 0, 2, 2, 7, 0>>]

(***************************************************************************)
(* Claims about parse_link_headers                                          *)
(***************************************************************************)
\* The entries of the header that carry the relation name r.
RelEntries(r) == {i \in 1..Len(link) : link[i].rel = r}

\* Entry i is the only entry of the header with its relation name.
SoleOfItsRel(i) == RelEntries(link[i].rel) = {i}

\* The field of the PageHeader a relation name belongs to.
Field(r) == IF r = NEXT THEN ph.out.next ELSE ph.out.last

\* The value of the `page` query parameter of the queries in which it is a
\* decimal u32, written out.
PageParam ==
    (Q_page2 :> <<2>>) @@ (Q_page2_per20 :> <<2>>) @@ (Q_per20_page3 :> <<3>>)
    @@ (Q_state_page1 :> <<1>>) @@ (Q_page2_webpage7 :> <<2>>)

\* The value of the `per_page` query parameter of the queries that have one.
PerPageParam == (Q_page2_per20 :> <<2, 0>>) @@ (Q_per20_page3 :> <<2, 0>>)

\* The queries in which no `page=` is followed by a digit.
NoPageDigits == {Q_state, Q_page_abc, Q_page_empty}

\* C12, as claimed: a next (last) entry whose URL has a page=<digits>
\* parameter sets next (last) to the Page of that entry's URL and page
\* number; a header without a next (last) entry leaves next (last) unset,
\* whatever entries of other relation names it holds.
C12_WellFormedEntriesGiveTheirPage ==
    ph.called =>
        \A r \in {NEXT, LAST} :
            /\ RelEntries(r) = {} => Field(r) = NoPage
            /\ \A i \in RelEntries(r) :
                  (SoleOfItsRel(i) /\ link[i].query \in DOMAIN PageParam)
                  => Field(r) = Page_new(UrlOf(link[i]), PageParam[link[i].query])

\* C13, as claimed: a next or last entry whose page number is non-numeric,
\* missing or too large for u32 yields a Page of that entry's URL with
\* number 0.
C13_UnparsablePageIsZero ==
    ph.called =>
        \A i \in 1..Len(link) :
            ( /\ link[i].rel \in {NEXT, LAST}
              /\ SoleOfItsRel(i)
              /\ link[i].query \in NoPageDigits \cup {Q_page_over} )
            => Field(link[i].rel) = Page_new(UrlOf(link[i]), <<0>>)

\* C13, amended: a next or last entry whose page=<digits> value is too large
\* for u32 yields a Page of that entry's URL with number 0; entries whose URL
\* has no `page=` followed by a digit set nothing, so a relation with only
\* such entries stays unset.
C13_TooLargeIsZeroNoDigitsIsUnset ==
    ph.called =>
        \A r \in {NEXT, LAST} :
            /\ \A i \in RelEntries(r) :
                  (SoleOfItsRel(i) /\ link[i].query = Q_page_over)
                  => Field(r) = Page_new(UrlOf(link[i]), <<0>>)
            /\ (\A i \in RelEntries(r) : link[i].query \in NoPageDigits)
               => Field(r) = NoPage

\* C13: a next entry with page=4294967296 and a last entry with page=abc,
\* parsed to next = Page with number 0 and last unset.
C13_Witness ==
    /\ ph.called
    /\ link = <<[query |-> Q_page_over, rel |-> NEXT],
                [query |-> Q_page_abc, rel |-> LAST]>>
    /\ ph.out.next = Page_new(BaseUrl \o Q_page_over, <<0>>)
    /\ ph.out.last = NoPage

\* C14, as claimed: the number stored for a next or last URL is the value of
\* its `page` parameter, whatever precedes and follows it in the query, and
\* not the value of `per_page`.
C14_NumberIsThePageParameter ==
    ph.called =>
        \A i \in 1..Len(link) :
            ( /\ link[i].rel \in {NEXT, LAST}
              /\ SoleOfItsRel(i)
              /\ link[i].query \in DOMAIN PageParam )
            => /\ Field(link[i].rel).some
               /\ Field(link[i].rel).number = PageParam[link[i].query]
               /\ link[i].query \in DOMAIN PerPageParam
                  => Field(link[i].rel).number # PerPageParam[link[i].query]

(***************************************************************************)
(* Claims about num_pages                                                   *)
(***************************************************************************)
\* The response has a link header.
HasLinkHeader == resp.headers.some /\ LINK_HEADER \in DOMAIN resp.headers.map

\* C15, as claimed: for a successful response without a link header the
\* page count asked for is unknown: num_pages reports no definite count, and
\* in particular not a count of one.
C15_NoLinkHeaderIsUnknown ==
    (pages.called /\ resp.status \in OkStatuses /\ ~HasLinkHeader) =>
        /\ pages.result # OkSome(<<1>>)
        /\ ~(pages.result.kind = "ok" /\ pages.result.some)

SameAsFirstCall ==
    \A i, j \in 1..Len(calls) :
        (calls[i].fn = calls[j].fn /\ calls[i].key = calls[j].key)
        => calls[i].out = calls[j].out

\* C17: on one Response, get_etag, get_page_headers, get_ratelimit_headers,
\* header and status, called in any order, any number of times and at any
\* time, return what their first call returned, and no call changes the
\* status, the body or the headers of the Response.
C17_AccessorsAreIdempotent ==
    /\ []SameAsFirstCall
    /\ [][ /\ resp'.status = resp.status
           /\ resp'.body = resp.body
           /\ resp'.headers = resp.headers ]_vars

\* C17: get_ratelimit_headers called twice, a second apart, on a Response
\* whose reset header does not parse: both calls report the reset horizon
\* computed at construction.
C17_Witness ==
    /\ Len(calls) = 2
    /\ calls[1].fn = "get_ratelimit_headers"
    /\ calls[2].fn = "get_ratelimit_headers"
    /\ calls[1].at < calls[2].at
    /\ Has(GITHUB_RATELIMIT_REMAINING)
    /\ Has(GITHUB_RATELIMIT_RESET)
    /\ HeaderMap[GITHUB_RATELIMIT_RESET] = V_empty
    /\ calls[2].out.some
    /\ calls[2].out.reset = NumOf(calls[1].at + 60)

(***************************************************************************)
(* Claims about in_feature_branch, open and get_project_data                *)
(***************************************************************************)
\* C18: in_feature_branch is an error when the current branch is the
\* upstream branch, an error when the current branch is main, master or
\* develop whatever the upstream branch is, and Ok in every other case.
C18_FeatureBranchGuard ==
    call.op = "in_feature_branch" =>
        LET c == call.input.current_branch
            u == call.input.upstream_branch
        IN  /\ c = u => call.result.kind = "err"
            /\ c \in {"main", "master", "develop"} => call.result.kind = "err"
            /\ (c # u /\ c \notin {"main", "master", "develop"}) => call.result.kind = "ok"

\* C18: the current branch develop with another upstream branch, refused.
C18_Witness ==
    /\ call.op = "in_feature_branch"
    /\ call.input.current_branch = "develop"
    /\ call.input.upstream_branch = "upstream-branch"
    /\ call.result = PreconditionNotMet

\* C19: open on a Gitlab remote gives, for a 201 response, Ok with the iid
\* and the web_url of the body; for a 409 response with the conflict message
\* of merge request !n, Ok with id n and the URL built from the remote's
\* domain and path and n; for a response of any other status, an error.
C19_OpenByStatus ==
    (call.op = "open" /\ call.input.answer.ok) =>
        LET r == call.input.answer.response
            g == call.input.remote
        IN  /\ r.status = 201
               => call.result = [kind |-> "ok", id |-> r.body.iid, web_url |-> r.body.web_url]
            /\ r.status = 409
               => \E iid \in IidTexts :
                     /\ r.body = ConflictBody(iid)
                     /\ call.result = [kind |-> "ok", id |-> IidNumber[iid],
                                       web_url |-> [domain |-> g.domain, path |-> g.path,
                                                    iid |-> iid]]
            /\ r.status \notin {201, 409} => call.result.kind = "err"

\* C19: the conflict for merge request !60 on gitlab.com, answered as the
\* merge request 60 of that project.
C19_Witness ==
    /\ call.op = "open"
    /\ call.input.answer.ok
    /\ call.input.answer.response.status = 409
    /\ call.input.answer.response.body = ConflictBody(<<"6", "0">>)
    /\ call.result.kind = "ok"
    /\ call.result.id.num = <<6, 0>>
    /\ call.result.web_url = MergeRequestUrl("gitlab.com", "jordilin/gitlapi", <<"6", "0">>)

\* C20: get_project_data on a Github remote with an id is the error
\* OperationNotSupported and makes no request; without an id it makes one
\* request, a GET of {api base}/repos/{path}, and a project answered is
\* returned under the Project tag.
C20_ProjectByIdNotSupported ==
    call.op = "get_project_data" =>
        LET g == call.input.remote
        IN  /\ call.input.id.some
               => /\ call.result.kind = "err"
                  /\ call.result.err = "OperationNotSupported"
                  /\ call.requests = <<>>
            /\ ~call.input.id.some
               => /\ call.requests =
                        <<[method |-> "GET",
                           url |-> <<"https://api.", g.domain, "/repos/", g.path>>]>>
                  /\ call.input.answer.status = 200
                     => call.result = [kind |-> "ok", err |-> "none",
                                       info |-> [tag |-> "Project",
                                                 project |-> call.input.answer.project]]

\* C20: asked for project 1 by id, the remote refused without a request.
C20_Witness ==
    /\ call.op = "get_project_data"
    /\ call.input.id = SomeId(1)
    /\ call.input.answer.status = 200
    /\ call.requests = <<>>
    /\ call.result.err = "OperationNotSupported"

(***************************************************************************)
(* Claims about the result tags the fold does not consume                   *)
(***************************************************************************)
UnconsumedTags == CmdInfo \ ConsumedTags

IsConsumed(r) == r.kind = "err" \/ r.tag \in ConsumedTags

\* The results without the successful ones of an unconsumed tag.
ConsumedOnly(rs) == SelectSeq(rs, IsConsumed)

\* C21: in the fold of get_repo_project_info a successful result whose tag
\* has no match arm (Ignore, Exit, RemoteUrl, OutgoingCommits, MergeRequest,
\* MergeRequestsList) leaves project, members and repo as they were and does
\* not make the fold return; the fold returns an error only on an Err
\* result, and what it returns is what the other results alone give.
C21_UnconsumedTagsLeaveTheFoldAlone ==
    /\ [][/\ (foldIdx' = foldIdx + 1 /\ results[foldIdx].tag \in UnconsumedTags)
              => (acc' = acc /\ ret' = ret)
          /\ (ret'.kind = "err" /\ ret.kind # "err")
              => (results[foldIdx].kind = "err" /\ ret'.err = results[foldIdx].val)]_vars
    /\ [](ret.kind # "pending" =>
            /\ ret = fold_from(ConsumedOnly(results), 1, AccInit)
            /\ ret.kind = "err" <=> \E i \in 1..N : results[i].kind = "err")

\* A fold that returned Ok after an unconsumed result that came between two
\* consumed ones.
C21_Witness ==
    /\ ret.kind = "ok"
    /\ N = 3
    /\ results[1].tag \in ConsumedTags
    /\ results[2].tag \in {"Exit", "RemoteUrl", "OutgoingCommits", "MergeRequest"}
    /\ results[3].tag \in ConsumedTags
    /\ ret.body # AccInit

(***************************************************************************)
(* Claims about the detection order and the range of the rate limit         *)
(***************************************************************************)
\* What a header value of the model reads as: its number when it is a
\* decimal number of the range ("+5" is 5), else the fallback.
ReadU32(v, fallback) ==
    IF v \in DOMAIN DecimalU32 THEN DecimalU32[v]
    ELSE IF v = V_plus5 THEN <<5>>
    ELSE fallback

ReadU64(v, fallback) ==
    IF v \in DOMAIN DecimalU64 THEN DecimalU64[v]
    ELSE IF v = V_plus5 THEN <<5>>
    ELSE fallback

\* The report read from the keys remaining_key and reset_key alone.
ReportOf(remaining_key, reset_key) ==
    [some |-> TRUE,
     remaining |-> ReadU32(HeaderMap[remaining_key], <<8, 0>>),
     reset |-> IF Has(reset_key)
               THEN ReadU64(HeaderMap[reset_key], NumOf(now + 60))
               ELSE SecondsDefault]

\* C22: when x-ratelimit-remaining is present the report is read from the
\* x-ratelimit-* keys alone, whatever is stored under the ratelimit-* keys;
\* the ratelimit-* keys are read only when x-ratelimit-remaining is absent.
C22_GithubKeysAreCheckedFirst ==
    rl.called =>
        /\ Has(GITHUB_RATELIMIT_REMAINING)
           => rl.out = ReportOf(GITHUB_RATELIMIT_REMAINING, GITHUB_RATELIMIT_RESET)
        /\ (~Has(GITHUB_RATELIMIT_REMAINING) /\ Has(GITLAB_RATELIMIT_REMAINING))
           => rl.out = ReportOf(GITLAB_RATELIMIT_REMAINING, GITLAB_RATELIMIT_RESET)

\* C22: both families present with different values; the x-ratelimit-*
\* values were reported.
C22_Witness ==
    /\ rl.called
    /\ resp.headers.some
    /\ RateLimitKeys \subseteq DOMAIN HeaderMap
    /\ HeaderMap[GITHUB_RATELIMIT_REMAINING] = V_30
    /\ HeaderMap[GITHUB_RATELIMIT_RESET] = V_reset
    /\ HeaderMap[GITLAB_RATELIMIT_REMAINING] = V_0
    /\ HeaderMap[GITLAB_RATELIMIT_RESET] = V_u32_over
    /\ rl.out = [some |-> TRUE, remaining |-> <<3, 0>>,
                 reset |-> <<1, 6, 5, 8, 6, 0, 2, 2, 7, 0>>]

\* A number of the unsigned 32-bit range: decimal digits without a sign,
\* not above 4294967295.
InU32(d) ==
    /\ Len(d) >= 1
    /\ \A i \in 1..Len(d) : d[i] \in 0..9
    /\ Len(d) > 1 => d[1] # 0
    /\ ~NumGreater(d, <<4, 2, 9, 4, 9, 6, 7, 2, 9, 5>>)

\* The header values of the model that are negative or above the range.
OutOfU32 == {V_minus1, V_u32_over, V_u64_over}

\* C23: the remaining of every reported RateLimitHeader is a number of the
\* unsigned 32-bit range, and a "remaining" header value that is negative
\* or above that range is reported as the default 80, neither negative nor
\* wrapped.
C23_RemainingIsInTheU32Range ==
    (rl.called /\ rl.out.some) =>
        /\ InU32(rl.out.remaining)
        /\ HeaderMap[SelectedRemaining] \in OutOfU32 => rl.out.remaining = <<8, 0>>

\* C23: ratelimit-remaining = 4294967296 and x-ratelimit-remaining = -1,
\* each the reported family's value, reported as 80.
C23_Witness ==
    /\ rl.called
    /\ rl.out.some
    /\ rl.out.remaining = <<8, 0>>
    /\ \/ /\ ~Has(GITHUB_RATELIMIT_REMAINING)
          /\ HeaderMap[GITLAB_RATELIMIT_REMAINING] = V_u32_over
       \/ /\ Has(GITHUB_RATELIMIT_REMAINING)
          /\ HeaderMap[GITHUB_RATELIMIT_REMAINING] = V_u64_over

(***************************************************************************)
(* Claims about which entries populate the fields of a PageHeader           *)
(***************************************************************************)
\* C24, as claimed: next (last) is set only if the header holds an entry of
\* relation name next (last) whose page number parses, as a u32; no entry of
\* another relation name populates the field.
C24_SetOnlyByAnEntryWhosePageParses ==
    ph.called =>
        \A r \in {NEXT, LAST} :
            Field(r).some => \E i \in RelEntries(r) : link[i].query \in DOMAIN PageParam

\* C24, amended: next (last) is set only if the header holds an entry of
\* relation name next (last) whose URL has a `page=` followed by a digit, and
\* then it holds the URL of such an entry; the digits need not be a u32:
\* when they are too large in every such entry the field is set, with
\* number 0. No entry of another relation name populates the field.
C24_SetOnlyByAnEntryWithPageDigits ==
    ph.called =>
        \A r \in {NEXT, LAST} :
            /\ Field(r).some =>
                  \E i \in RelEntries(r) :
                      /\ link[i].query \notin NoPageDigits
                      /\ Field(r).url = UrlOf(link[i])
            /\ ( /\ \E i \in RelEntries(r) : link[i].query = Q_page_over
                 /\ \A i \in RelEntries(r) : link[i].query \in NoPageDigits \cup {Q_page_over} )
               => (Field(r).some /\ Field(r).number = <<0>>)

\* C24: a last entry with page=4294967296 next to a prev entry with page=2,
\* parsed to last = Page with number 0 and next unset.
C24_Witness ==
    /\ ph.called
    /\ link = <<[query |-> Q_page_over, rel |-> LAST],
                [query |-> Q_page2, rel |-> PREV]>>
    /\ ph.out.last = Page_new(BaseUrl \o Q_page_over, <<0>>)
    /\ ph.out.next = NoPage

(***************************************************************************)
(* Claims about get_page_headers and the injected processor                 *)
(***************************************************************************)
\* C25: get_page_headers returns None when the Response has no header map
\* or its header map has no link key; otherwise it returns the PageHeader
\* the Response's link header processor gives for the link value: that of
\* the injected processor when one was injected, that of parse_link_headers
\* only when none was.
C25_PageHeadersAreTheProcessorsAnswer ==
    \A i \in 1..Len(calls) :
        calls[i].fn = "get_page_headers" =>
            IF ~Has(LINK_HEADER) THEN calls[i].out = NonePH
            ELSE /\ calls[i].out.some
                 /\ calls[i].out.out =
                       apply_processor(resp.link_header_processor, HeaderMap[LINK_HEADER])
                 /\ resp.link_header_processor = "parse_link_headers"
                    => calls[i].out.out = parse_link_headers(HeaderMap[LINK_HEADER])
                 /\ resp.link_header_processor = "no_pages"
                    => calls[i].out.out = PageHeader_new
                 /\ resp.link_header_processor = "whole_value_is_next"
                    => calls[i].out.out =
                          [next |-> Page_new(HeaderMap[LINK_HEADER], <<1>>), last |-> NoPage]

\* C25: a Response with a next and a last entry in its link header and the
\* injected processor that reports no pages: get_page_headers returned an
\* empty PageHeader, which parse_link_headers does not give for that header.
C25_Witness ==
    /\ Len(calls) >= 1
    /\ calls[1].fn = "get_page_headers"
    /\ Has(LINK_HEADER)
    /\ resp.link_header_processor = "no_pages"
    /\ calls[1].out = SomePH(PageHeader_new)
    /\ parse_link_headers(HeaderMap[LINK_HEADER]).next.some
    /\ parse_link_headers(HeaderMap[LINK_HEADER]).last.some

(***************************************************************************)
(* Claims about malformed link headers                                      *)
(***************************************************************************)
\* The forms that leave no `<URL>; rel="REL"` in the header, however the
\* entries written in them are combined.
FormlessForms == {"no_open", "no_semicolon", "no_quotes", "empty_url", "bare"}

\* Entry i is well-formed and the only well-formed entry of its relation.
SoleWellFormed(i) ==
    /\ link[i].form = "ok"
    /\ \A j \in 1..Len(link) :
          (link[j].form = "ok" /\ link[j].rel = link[i].rel) => j = i

\* The header was parsed and parse_link_headers returned a PageHeader.
ParsedToAPageHeader ==
    /\ ph.called
    /\ DOMAIN ph.out = {"next", "last"}
    /\ \A f \in {ph.out.next, ph.out.last} :
          f = NoPage \/ (f.some /\ f.url # <<>> /\ InU32(f.number))

\* C26, part: a header whose entries all miss a part of the form parses to
\* a PageHeader with next and last unset.
C26_FormlessTextIsEmpty ==
    (ph.called /\ \A i \in 1..Len(link) : link[i].form \in FormlessForms)
    => ph.out = PageHeader_new

\* C26, part: a well-formed next or last entry is extracted whatever
\* malformed entry stands next to it.
C26_WellFormedEntriesSurvive ==
    ph.called =>
        \A i \in 1..Len(link) :
            (SoleWellFormed(i) /\ link[i].query \in DOMAIN PageParam)
            => Field(link[i].rel) = Page_new(UrlOf(link[i]), PageParam[link[i].query])

\* C26: parse_link_headers returns a PageHeader for every header text; a
\* text without an entry of the form `<URL>; rel="REL"` gives next and last
\* unset; a malformed entry next to a well-formed next or last entry does
\* not keep that entry from being extracted.
C26_MalformedTextDegradesGracefully ==
    /\ ph.called => ParsedToAPageHeader
    /\ C26_FormlessTextIsEmpty
    /\ C26_WellFormedEntriesSurvive

(***************************************************************************)
(* Claims about header and get_etag                                         *)
(***************************************************************************)
\* C27: header(name) returns the value stored under the key that equals
\* name character by character, letter case included, and nothing when there
\* is no such key or no header map; get_etag() returns what header("etag")
\* returns, so an ETag stored under another casing is not returned.
C27_HeaderLookupIsExact ==
    \A i \in 1..Len(calls) :
        /\ calls[i].fn = "header" =>
              IF Has(calls[i].key)
              THEN calls[i].out = [some |-> TRUE, val |-> HeaderMap[calls[i].key]]
              ELSE calls[i].out = NoValue
        /\ calls[i].fn = "get_etag" =>
              /\ IF Has("etag")
                 THEN calls[i].out = [some |-> TRUE, val |-> HeaderMap["etag"]]
                 ELSE calls[i].out = NoValue
              /\ \A j \in 1..Len(calls) :
                    (calls[j].fn = "header" /\ calls[j].key = "etag")
                    => calls[j].out = calls[i].out

\* C27: the header map holds an ETag under "ETag" and under "Etag" but not
\* under "etag": get_etag returned nothing and header("ETag") the value.
C27_Witness ==
    /\ Len(calls) = 2
    /\ resp.headers.some
    /\ DOMAIN HeaderMap = {"ETag", "Etag"}
    /\ HeaderMap["ETag"] = V_etag
    /\ HeaderMap["Etag"] = V_etag2
    /\ calls[1].fn = "get_etag"
    /\ calls[1].out = NoValue
    /\ calls[2].fn = "header"
    /\ calls[2].key = "ETag"
    /\ calls[2].out = [some |-> TRUE, val |-> V_etag]

(***************************************************************************)
(* Claims about open, the merge request workflow                            *)
(***************************************************************************)
\* The steps of open, in the order of the claim.
Steps ==
    <<"in_feature_branch", "confirm", "rebase", "outgoing_commits", "summary", "push",
      "remote_open", "browser">>

Trace == call.requests

Taken(step) == \E k \in 1..Len(Trace) : Trace[k].step = step

SourceBranch == call.input.mr_body.repo.branch

TargetBranch ==
    IF call.input.target_branch.some THEN call.input.target_branch.val
    ELSE call.input.mr_body.project.default_branch

\* C28: the steps of open are taken in the order feature-branch check,
\* confirmation, rebase, outgoing-commit check, summary, push, remote open,
\* browser, none is skipped, and a step is taken only after every earlier
\* one went well; the browser is opened only when asked for; the remote is
\* asked to open the merge request only after a push that went well; nothing
\* is pushed when the source branch is the target branch or is main, master
\* or develop.
C28_StepsInOrderEachAfterSuccess ==
    /\ [](/\ Len(Trace) <= Len(Steps)
          /\ \A k \in 1..Len(Trace) : Trace[k].step = Steps[k]
          /\ \A j, k \in 1..Len(Trace) : j < k => Trace[j].ok
          /\ Taken("browser") => call.input.open_browser
          /\ \A k \in 1..Len(Trace) :
                Trace[k].step = "remote_open"
                => \E j \in 1..(k - 1) : Trace[j].step = "push" /\ Trace[j].ok
          /\ Taken("push") =>
                /\ SourceBranch # TargetBranch
                /\ SourceBranch \notin {"main", "master", "develop"})
    /\ [][/\ Len(call'.requests) = Len(call.requests) + 1
          /\ SubSeq(call'.requests, 1, Len(call.requests)) = call.requests]_vars

\* C28: a workflow that took all eight steps and returned Ok.
C28_Witness ==
    /\ call.pc = "done"
    /\ call.result = OkUnit
    /\ Len(Trace) = 8
    /\ Trace[6] = [step |-> "push", ok |-> TRUE]
    /\ Trace[7] = [step |-> "remote_open", ok |-> TRUE]
    /\ Trace[8] = [step |-> "browser", ok |-> TRUE]

\* C29: when there are no outgoing commits open returns PreconditionNotMet,
\* and when the summary is not confirmed it returns Ok; in both cases
\* nothing is pushed and the remote is not asked to open the merge request.
C29_NoCommitsOrNoConfirmationStops ==
    /\ call.outgoing_commits = SomeS("") =>
          /\ call.pc = "done"
          /\ call.result = PreconditionNotMet
          /\ ~Taken("push")
          /\ ~Taken("remote_open")
    /\ (\E k \in 1..Len(Trace) : Trace[k].step = "summary" /\ ~Trace[k].ok) =>
          /\ call.pc = "done"
          /\ call.result = OkUnit
          /\ ~Taken("push")
          /\ ~Taken("remote_open")

\* C29: the rebase went well and there were no outgoing commits: open
\* returned PreconditionNotMet after the outgoing-commit check.
C29_Witness ==
    /\ call.outgoing_commits = SomeS("")
    /\ Len(Trace) = 4
    /\ Trace[3] = [step |-> "rebase", ok |-> TRUE]
    /\ Trace[4] = [step |-> "outgoing_commits", ok |-> FALSE]
    /\ call.result = PreconditionNotMet

\* The members whose username is the preferred assignee's.
Matching ==
    {i \in 1..Len(call.input.mr_body.members) :
        call.input.mr_body.members[i].username
            = call.input.config.preferred_assignee_username}

\* The member ids of the model, as text.
IdText == (1 :> <<"1">>) @@ (2 :> <<"2">>) @@ (13 :> <<"1", "3">>)

\* C30: with noprompt, user_prompt_confirmation returns Ok only when exactly
\* one member has the preferred assignee's username, and the arguments then
\* name that member as the assignee; when no member or several members have
\* it, it returns PreconditionNotMet, no arguments are built and open stops:
\* nothing is rebased, pushed or opened.
C30_NopromptNeedsOnePreferredAssignee ==
    (call.input.noprompt /\ Taken("confirm")) =>
        /\ Trace[2].ok =>
              /\ Cardinality(Matching) = 1
              /\ \A i \in Matching :
                    /\ call.args.assignee_id = IdText[call.input.mr_body.members[i].id]
                    /\ call.args.username = call.input.mr_body.members[i].username
        /\ Cardinality(Matching) # 1 =>
              /\ ~Trace[2].ok
              /\ call.result = PreconditionNotMet
              /\ call.args = NoArgs
              /\ call.pc = "done"
              /\ Len(Trace) = 2

\* C30: with noprompt, members alice (13) and bob (2) and the preferred
\* assignee alice, the merge request was opened with assignee 13.
C30_Witness ==
    /\ call.input.noprompt
    /\ call.input.mr_body.members =
          <<[id |-> 13, username |-> "alice"], [id |-> 2, username |-> "bob"]>>
    /\ call.input.config.preferred_assignee_username = "alice"
    /\ call.args.assignee_id = <<"1", "3">>
    /\ call.args.username = "alice"
    /\ Taken("remote_open")
    /\ call.result = OkUnit
====
